---- MODULE Spec2Model ----
(***************************************************************************)
(* python-can: the bus abstraction (can/bus.py BusABC), the native-driver  *)
(* channel handles and their registries (pycanlib/CAN.py) modelled as      *)
(* state machines.  Each subsystem has its own specification; a            *)
(* specification leaves the variables of the other subsystems unchanged.   *)
(***************************************************************************)
EXTENDS Integers, Sequences, FiniteSets, TLC

(* ---- bounds of the model ---- *)
\* frames the backend receive primitive can return during one run
MaxFrames == 2
\* BusABC.write calls during one run
MaxWrites == 2
\* listeners that can be appended to BusABC.listeners
NumListeners == 2
\* BusABC.shutdown calls during one run
MaxShutdowns == 2

\* channels the driver reports (canGetNumberOfChannels)
NumChannels == 2
\* pycanlib Bus constructions during one run
MaxBuses == 3

\* frames the hardware puts into a read handle's receive buffer in one run
MaxRxFrames == 2
\* Bus objects listening on the read handle
NumSinks == 2
\* messages passed to _Handle.write during one run
MaxTx == 3
MaxReads == 2
MaxPayloadLen == 9
MaxCodecLen == 2
MaxInbound == 2
MaxRecvCalls == 2
MaxTicks == 7
MaxAttempts == 3
MaxSends == 2
MaxPuts == 3
MaxGets == 3
MaxFailedInits == 1

Listeners == 1..NumListeners
\* threads on which the driver invokes RX_CALLBACK for the read handle
RxThreads == {"rx1", "rx2"}
\* threads that call Bus.write, and the thread on which the driver invokes
\* TX_CALLBACK for the write handle
Writers == {"w1", "w2"}
TxNotifier == "txn"
TxThreads == Writers \cup {TxNotifier}
Sinks == 1..NumSinks
Channels == 0..(NumChannels - 1)
\* values of the flags argument of canOpenChannel that the driver accepts
FlagValues == {0, 8}
\* bus timing parameter tuples (speed, tseg1, tseg2, sjw, no_samp)
Timings == {"t1", "t2"}
DriverModes == {"canDRIVER_NORMAL", "canDRIVER_SILENT"}

VARIABLES
    \* ---- can/bus.py BusABC: program state ----
    listeners,          \* self.listeners: list of callbacks
    _tx_queue,          \* self._tx_queue: queue.Queue of messages to write
    _threads_running,   \* self._threads_running: threading.Event
    tx_pc,              \* position of the thread running tx_thread
    rx_pc,              \* position of the thread running rx_thread
    rx_msg,             \* rx_thread's local rx_msg (0: none)
    rx_idx,             \* position of the for loop over self.listeners
    \* ---- can/bus.py BusABC: environment and observation ----
    got,                \* frames _get_message has returned, in order
    put_log,            \* frames handed to _put_message, in order
    received,           \* received[l]: frames listener l was called with
    reg_before_first,   \* listeners appended before _get_message returned a frame
    reg_after_shutdown, \* listeners appended after shutdown() was called
    accepted,           \* number of frames accepted by write()
    shutdown_calls,     \* number of shutdown() calls so far
    shutdown_in_fanout, \* a shutdown() call happened during a fan-out
    \* ---- pycanlib/CAN.py: handle registries and Bus objects ----
    READ_HANDLE_REGISTRY,   \* canlib handle number -> _Handle
    WRITE_HANDLE_REGISTRY,  \* canlib handle number -> _Handle
    buses,                  \* the Bus objects constructed, in order
    canlib_chan,            \* driver side of each open handle
    canlib_opened,          \* number of canOpenChannel calls that succeeded
    \* ---- pycanlib/CAN.py: one read handle (_Handle in READ_HANDLE_REGISTRY) ----
    reading,                  \* self.reading
    receive_callback_enabled, \* self.receive_callback_enabled
    handle_listeners,         \* self.listeners
    rx_queue,                 \* rx_queue[b]: Bus b's self.rx_queue
    canlib_rx,                \* the driver's receive buffer of the handle
    rx_notify,                \* receive notifications the driver has to deliver
    arrived,                  \* frames the hardware has received so far
    rc_pc,                    \* rc_pc[t]: position of thread t in receive_callback
    rc_msg,                   \* rc_msg[t]: the _rx_msg thread t is fanning out
    rc_idx,                   \* rc_idx[t]: position of t's loop over self.listeners
    \* ---- pycanlib/CAN.py: one write handle (_Handle in WRITE_HANDLE_REGISTRY) ----
    writing,                  \* self.writing
    transmit_callback_enabled,\* self.transmit_callback_enabled
    tx_queue,                 \* self.tx_queue
    canlib_written,           \* messages passed to canWrite, in call order
    tx_notify,                \* transmit-complete notifications to deliver
    enqueued,                 \* messages put on tx_queue, in put order
    tc_pc,                    \* tc_pc[t]: position of thread t in write/transmit_callback
    tc_old_size,              \* tc_old_size[t]: write's local _old_size
    tc_msg,                   \* tc_msg[t]: write's argument msg
    tc_to_send,               \* tc_to_send[t]: transmit_callback's local _to_send
    \* ---- pycanlib/CAN.py: _cleanup (atexit) on the two handles ----
    cl_pc,                    \* position of the thread running _cleanup
    receiveCallbackEnabled,   \* attribute _cleanup sets on the read handle: "unset" or "False"
    transmitCallbackEnabled,  \* attribute _cleanup sets on the write handle: "unset" or "False"
    rx_flushed,               \* read handle: callback cleared, receive queue flushed
    tx_flushed,               \* write handle: callback cleared, transmit queue flushed
    \* ---- pycanlib/CAN.py: Bus.read on the buses of one read handle ----
    read_log,                 \* read_log[b]: the frames Bus.read returned on bus b
    read_none,                \* read_none[b]: how often Bus.read returned None on bus b
    drain_regs,               \* drain_regs[k]: the buses registered when frame k was drained
    \* ---- pycanlib/CAN.py: Message(device_id, payload, dlc, flags, timestamp) ----
    msg_in,                   \* the arguments of one constructor call
    msg_out,                  \* its outcome: pending, a Message, or the error raised
    \* ---- can/interfaces/socketcand_bus.py: the frame <-> ASCII conversions ----
    codec_msg,                \* a can.Message handed to the encoder
    codec_ts,                 \* the timestamp text the daemon puts on the frame
    codec_line,               \* the "< send ... >" line made from it ("pending" stage: <<>>)
    codec_back,               \* what decoding the daemon's "< frame ... >" line gave
    codec_pc,                 \* "new", "encoded", "decoded"
    \* ---- can/interfaces/socketcand_bus.py: SocketCanDaemonBus._recv_internal ----
    sock_open,                \* the TCP socket has not been closed
    inbound,                  \* the lines the daemon sent that no recv has taken yet
    lines_sent,               \* how many lines the daemon has sent
    ri_calls,                 \* how many calls of _recv_internal were made
    ri_pc,                    \* "idle", "select", "selected", "recv"
    ri_select,                \* what select did in this call: "none", "ready", "timeout", "error", "closed"
    ri_selects,               \* select calls made by this call
    ri_reads,                 \* socket.recv calls made by this call
    ri_ret,                   \* how the last call ended: pending, return or raise
    \* ---- can/interfaces/socketcand_bus.py: connect_to_server ----
    clock,                    \* time.time() * 1000, in milliseconds
    cs_pc,                    \* "new", "loop", "connect", "returned", "raised"
    cs_now,                   \* the local now
    cs_end_time,              \* the local end_time
    cs_connected,             \* s.connect has succeeded
    cs_attempts,              \* connect attempts made (counted up to MaxAttempts)
    \* ---- can/interfaces/socketcand_bus.py: SocketCanDaemonBus.__init__ and send ----
    hs_pc,                    \* "new", "connecting", "open", "rawmode", "super", "ready", "failed"
    hs_channel,               \* the channel argument
    hs_sent,                  \* the messages written to the socket, in order
    hs_threads,               \* BusABC.__init__ has started the reader and the writer
    \* ---- can/CAN.py: BufferedReader ----
    buffer,                   \* self.buffer, a queue.Queue(0)
    bf_put,                   \* how many frames on_message_received was called with
    bf_calls,                 \* how many calls of get_message were made
    bf_pc,                    \* bf_pc[c]: "idle", or "get" inside self.buffer.get
    bf_ret,                   \* bf_ret[c]: how consumer c's last call ended
    bf_returned,              \* the frames get_message returned, in the order of return
    \* ---- pycanlib/CAN.py: Bus.add_listener ----
    al_pc,                    \* al_pc[l]: "new", "appended" (line 832 done), "done"
    al_early,                 \* listeners invoked with a frame before set_write_bus
    \* ---- pycanlib/CAN.py: Bus(...) calls that raise in _get_handle ----
    failed_inits,             \* how many Bus(...) calls ended with an exception
    init_error,               \* how the last of them ended, and at which _get_handle
    \* ---- pycanlib/CAN.py: _Handle.write, seen from its caller ----
    tc_busy_at_call,          \* tc_busy_at_call[t]: a transmit was in progress when t called write
    \* ---- can/bus.py: the reader after shutdown() ----
    fanned_after_shutdown,    \* frames a listener was called with after shutdown() returned
    \* ---- pycanlib/CAN.py: Bus.write ----
    bw_silent_seen            \* write was called on a Bus in silent driver mode

busProgram == <<listeners, _tx_queue, _threads_running, tx_pc, rx_pc, rx_msg, rx_idx>>
busObserved == <<got, put_log, received, reg_before_first, reg_after_shutdown, accepted,
                 shutdown_calls, shutdown_in_fanout>>
busVars == <<busProgram, busObserved>>

regVars == <<READ_HANDLE_REGISTRY, WRITE_HANDLE_REGISTRY, buses, canlib_chan,
             canlib_opened>>

rdProgram == <<reading, receive_callback_enabled, handle_listeners, rx_queue,
               rc_pc, rc_msg, rc_idx>>
rdVars == <<rdProgram, canlib_rx, rx_notify, arrived>>
wrProgram == <<writing, transmit_callback_enabled, tx_queue, tc_pc, tc_old_size,
               tc_msg, tc_to_send>>
wrVars == <<wrProgram, canlib_written, tx_notify, enqueued>>

clVars == <<cl_pc, receiveCallbackEnabled, transmitCallbackEnabled, rx_flushed,
            tx_flushed>>

\* The variables of the subsystems added after the bus, the registries and
\* the two handle paths.
brVars == <<read_log, read_none, drain_regs>>

msgVars == <<msg_in, msg_out>>

codecVars == <<codec_msg, codec_ts, codec_line, codec_back, codec_pc>>

\* The variables of the constructor and of the daemon backend.
recvVars == <<sock_open, inbound, lines_sent, ri_calls, ri_pc, ri_select, ri_selects,
              ri_reads, ri_ret>>

connVars == <<clock, cs_pc, cs_now, cs_end_time, cs_connected, cs_attempts>>

hsVars == <<hs_pc, hs_channel, hs_sent, hs_threads>>

restVars == <<msgVars, codecVars, recvVars, connVars, hsVars>>

\* The variables of the listeners outside a Bus.
bufVars == <<buffer, bf_put, bf_calls, bf_pc, bf_ret, bf_returned>>

alVars == <<al_pc, al_early>>

openVars == <<failed_inits, init_error>>

callVars == <<tc_busy_at_call>>

shutVars == <<fanned_after_shutdown>>

bwVars == <<bw_silent_seen>>

lateVars == <<shutVars, bwVars>>

listenerVars == <<bufVars, alVars, openVars, callVars, lateVars>>

extVars == <<clVars, brVars, restVars, listenerVars>>

vars == <<busVars, regVars, rdVars, wrVars, extVars>>

(***************************************************************************)
(* can/bus.py: BusABC                                                      *)
(***************************************************************************)

\* BusABC.__init__: empty listener list, empty queue, the event set, both
\* threads started (each at the head of its loop).
BusInit ==
    /\ listeners = <<>>
    /\ _tx_queue = <<>>
    /\ _threads_running = TRUE
    /\ tx_pc = "loop"
    /\ rx_pc = "loop"
    /\ rx_msg = 0
    /\ rx_idx = 0
    /\ got = <<>>
    /\ put_log = <<>>
    /\ received = [l \in Listeners |-> <<>>]
    /\ reg_before_first = {}
    /\ reg_after_shutdown = {}
    /\ accepted = 0
    /\ shutdown_calls = 0
    /\ shutdown_in_fanout = FALSE

\* write(msg) on a queue of maximum size 1: put_nowait raises queue.Full
\* while a frame is waiting.
writeOnBoundedQueue(msg) ==
    /\ accepted < MaxWrites
    /\ msg = accepted + 1
    /\ Len(_tx_queue) < 1
    /\ _tx_queue' = Append(_tx_queue, msg)
    /\ accepted' = accepted + 1
    /\ UNCHANGED <<listeners, _threads_running, tx_pc, rx_pc, rx_msg, rx_idx>>
    /\ UNCHANGED <<got, put_log, received, reg_before_first, reg_after_shutdown,
                   shutdown_calls, shutdown_in_fanout>>
\* write(msg): self._tx_queue.put_nowait(msg) on an unbounded queue.
write(msg) ==
    /\ accepted < MaxWrites
    /\ msg = accepted + 1
    /\ _tx_queue' = Append(_tx_queue, msg)
    /\ accepted' = accepted + 1
    /\ UNCHANGED <<listeners, _threads_running, tx_pc, rx_pc, rx_msg, rx_idx>>
    /\ UNCHANGED <<got, put_log, received, reg_before_first, reg_after_shutdown,
                   shutdown_calls, shutdown_in_fanout>>

\* The loop condition of tx_thread: `False and self._threads_running.is_set()`.
TxLoopCond == FALSE /\ _threads_running

\* tx_thread: one evaluation of the while condition; when it holds the body
\* hands the head of the queue to _put_message (or finds the queue empty and
\* loops), when it does not the thread function returns.
tx_thread ==
    /\ tx_pc = "loop"
    /\ IF TxLoopCond
       THEN IF _tx_queue # <<>>
            THEN /\ put_log' = Append(put_log, Head(_tx_queue))
                 /\ _tx_queue' = Tail(_tx_queue)
                 /\ tx_pc' = "loop"
            ELSE UNCHANGED <<put_log, _tx_queue, tx_pc>>
       ELSE /\ tx_pc' = "done"
            /\ UNCHANGED <<put_log, _tx_queue>>
    /\ UNCHANGED <<listeners, _threads_running, rx_pc, rx_msg, rx_idx>>
    /\ UNCHANGED <<got, received, reg_before_first, reg_after_shutdown, accepted,
                   shutdown_calls, shutdown_in_fanout>>

\* The loop condition of rx_thread: `self._threads_running.is_set()`.
RxLoopCondIgnoresFlag == TRUE
RxLoopCond == _threads_running

\* rx_thread, head of the while loop.
rx_thread_loop ==
    /\ rx_pc = "loop"
    /\ rx_pc' = IF RxLoopCond THEN "get" ELSE "done"
    /\ UNCHANGED <<listeners, _tx_queue, _threads_running, tx_pc, rx_msg, rx_idx>>
    /\ UNCHANGED busObserved

\* rx_thread: _get_message() returns the backend's next frame; the for loop
\* over self.listeners starts at index 0 (1 here).
rx_thread_get_frame ==
    /\ rx_pc = "get"
    /\ Len(got) < MaxFrames
    /\ rx_msg' = Len(got) + 1
    /\ got' = Append(got, Len(got) + 1)
    /\ rx_idx' = 1
    /\ rx_pc' = "fanout"
    /\ UNCHANGED <<listeners, _tx_queue, _threads_running, tx_pc>>
    /\ UNCHANGED <<put_log, received, reg_before_first, reg_after_shutdown, accepted,
                   shutdown_calls, shutdown_in_fanout>>

\* rx_thread: _get_message() returns None ("may return None").
rx_thread_get_none ==
    /\ rx_pc = "get"
    /\ rx_msg' = 0
    /\ rx_pc' = "loop"
    /\ UNCHANGED <<listeners, _tx_queue, _threads_running, tx_pc, rx_idx>>
    /\ UNCHANGED busObserved

\* rx_thread: _get_message() raises; nothing in rx_thread catches it, so the
\* thread function ends with the exception.
rx_thread_get_raises ==
    /\ rx_pc = "get"
    /\ rx_pc' = "raised"
    /\ UNCHANGED <<listeners, _tx_queue, _threads_running, tx_pc, rx_msg, rx_idx>>
    /\ UNCHANGED busObserved

\* rx_thread: callback(rx_msg) for the listener at the loop's position; the
\* callback returns.  The list iterator reads the live list, so a listener
\* appended during the fan-out is reached too.
rx_thread_callback ==
    /\ rx_pc = "fanout"
    /\ rx_idx <= Len(listeners)
    /\ received' = [received EXCEPT ![listeners[rx_idx]] = Append(@, rx_msg)]
    /\ rx_idx' = rx_idx + 1
    /\ UNCHANGED <<listeners, _tx_queue, _threads_running, tx_pc, rx_pc, rx_msg>>
    /\ UNCHANGED <<got, put_log, reg_before_first, reg_after_shutdown, accepted,
                   shutdown_calls, shutdown_in_fanout>>

\* rx_thread: callback(rx_msg) raises; nothing in rx_thread catches it.
rx_thread_callback_raises ==
    /\ rx_pc = "fanout"
    /\ rx_idx <= Len(listeners)
    /\ received' = [received EXCEPT ![listeners[rx_idx]] = Append(@, rx_msg)]
    /\ rx_pc' = "raised"
    /\ UNCHANGED <<listeners, _tx_queue, _threads_running, tx_pc, rx_msg, rx_idx>>
    /\ UNCHANGED <<got, put_log, reg_before_first, reg_after_shutdown, accepted,
                   shutdown_calls, shutdown_in_fanout>>

\* rx_thread: the for loop is exhausted; back to the while condition.
rx_thread_fanout_end ==
    /\ rx_pc = "fanout"
    /\ rx_idx > Len(listeners)
    /\ rx_pc' = "loop"
    /\ UNCHANGED <<listeners, _tx_queue, _threads_running, tx_pc, rx_msg, rx_idx>>
    /\ UNCHANGED busObserved

\* A listener is registered by appending it to the public list self.listeners
\* (BusABC has no other registration operation); possible in every state.
\* Listeners are named by the order of their registration.
add_listener(l) ==
    /\ l = Len(listeners) + 1
    /\ listeners' = Append(listeners, l)
    /\ reg_before_first' = IF got = <<>>
                           THEN reg_before_first \cup {l}
                           ELSE reg_before_first
    /\ reg_after_shutdown' = IF shutdown_calls > 0
                             THEN reg_after_shutdown \cup {l}
                             ELSE reg_after_shutdown
    /\ UNCHANGED <<_tx_queue, _threads_running, tx_pc, rx_pc, rx_msg, rx_idx>>
    /\ UNCHANGED <<got, put_log, received, accepted, shutdown_calls,
                   shutdown_in_fanout>>

\* The value shutdown() leaves in the event: self._threads_running.clear().
ShutdownFlagToggled == ~_threads_running
ShutdownFlag == FALSE

\* shutdown(): clears the event and returns.
shutdown ==
    /\ shutdown_calls < MaxShutdowns
    /\ _threads_running' = ShutdownFlag
    /\ shutdown_calls' = shutdown_calls + 1
    /\ shutdown_in_fanout' = (shutdown_in_fanout \/ rx_pc = "fanout")
    /\ UNCHANGED <<listeners, _tx_queue, tx_pc, rx_pc, rx_msg, rx_idx>>
    /\ UNCHANGED <<got, put_log, received, reg_before_first, reg_after_shutdown, accepted>>

RxStep ==
    \/ rx_thread_loop
    \/ rx_thread_get_frame
    \/ rx_thread_get_none
    \/ rx_thread_get_raises
    \/ rx_thread_callback
    \/ rx_thread_callback_raises
    \/ rx_thread_fanout_end

BusNext ==
    \/ \E msg \in 1..MaxWrites : write(msg)
    \/ tx_thread
    \/ RxStep
    \/ \E l \in Listeners : add_listener(l)
    \/ shutdown

(***************************************************************************)
(* pycanlib/CAN.py: the handle registries and Bus.__init__                 *)
(***************************************************************************)

\* READ_HANDLE_REGISTRY = {} and WRITE_HANDLE_REGISTRY = {}; no Bus yet.
RegInit ==
    /\ READ_HANDLE_REGISTRY = << >>
    /\ WRITE_HANDLE_REGISTRY = << >>
    /\ buses = <<>>
    /\ canlib_chan = << >>
    /\ canlib_opened = 0

\* The keys of a registry whose handle has this channel and these flags
\* (the scan of _get_handle).
MatchesNever(registry, channel_number, flags) == {}
Matches(registry, channel_number, flags) ==
    {k \in DOMAIN registry : /\ registry[k].channel = channel_number
                             /\ registry[k].flags = flags}

\* The scan keeps the last match it meets.
LastKey(S) == CHOOSE k \in S : \A j \in S : j <= k

\* _Handle.__init__ for the handle number canOpenChannel returned.
NewHandle(channel, flags, canlib_handle) ==
    [channel |-> channel, flags |-> flags, _canlib_handle |-> canlib_handle,
     listeners |-> <<>>]

\* The driver side after _Handle.__init__: canBusOn, default bus parameters.
NewChannel == [bus_on |-> TRUE, timing |-> "default", driver_mode |-> "default",
               notify |-> "none"]

\* _get_handle: the registry after the call; `fresh` is the handle number
\* canOpenChannel returns if it is called.
GetHandleRegistry(registry, channel_number, flags, fresh) ==
    IF Matches(registry, channel_number, flags) # {}
    THEN registry
    ELSE registry @@ (fresh :> NewHandle(channel_number, flags, fresh))

\* _get_handle: the canlib handle number of the handle it returns.
GetHandleKey(registry, channel_number, flags, fresh) ==
    IF Matches(registry, channel_number, flags) # {}
    THEN LastKey(Matches(registry, channel_number, flags))
    ELSE fresh

\* _get_handle: canOpenChannel was called.
GetHandleOpens(registry, channel_number, flags) ==
    Matches(registry, channel_number, flags) = {}

\* _get_handle: the callback kvSetNotifyCallback arms, decided by
\* `registry == READ_HANDLE_REGISTRY` (a comparison of the dictionaries).
NotifyFor(registry, read_registry) ==
    IF registry = read_registry THEN "RX_CALLBACK" ELSE "TX_CALLBACK"

\* The driver calls Bus.__init__ makes on a handle it reprograms (lines
\* 798-801 and 812-815).
canBusOff(chan) == [chan EXCEPT !.bus_on = FALSE]
canSetBusParams(chan, timing) == [chan EXCEPT !.timing = timing]
canBusOn(chan) == [chan EXCEPT !.bus_on = TRUE]

\* A reprogramming that does not go back on the bus.
ReprogramStaysOff(chan, timing) ==
    IF chan.timing # timing
    THEN canSetBusParams(canBusOff(chan), timing)
    ELSE chan
\* Bus.__init__: bus parameters of a handle, reprogrammed (bus off, set, bus
\* on) when they differ from the requested ones.
Reprogram(chan, timing) ==
    IF chan.timing # timing
    THEN canBusOn(canSetBusParams(canBusOff(chan), timing))
    ELSE chan

\* Bus.__init__(channel, flags, <timing>, driver_mode), as a whole.
Bus__init__(channel, flags, timing, driver_mode) ==
    LET fresh_r == canlib_opened
        rreg == GetHandleRegistry(READ_HANDLE_REGISTRY, channel, flags, fresh_r)
        rh == GetHandleKey(READ_HANDLE_REGISTRY, channel, flags, fresh_r)
        ropen == GetHandleOpens(READ_HANDLE_REGISTRY, channel, flags)
        chan1 == IF ropen THEN canlib_chan @@ (fresh_r :> NewChannel)
                 ELSE canlib_chan
        chan2 == [chan1 EXCEPT ![rh].notify = NotifyFor(rreg, rreg)]
        fresh_w == canlib_opened + (IF ropen THEN 1 ELSE 0)
        wreg == GetHandleRegistry(WRITE_HANDLE_REGISTRY, channel, flags, fresh_w)
        wh == GetHandleKey(WRITE_HANDLE_REGISTRY, channel, flags, fresh_w)
        wopen == GetHandleOpens(WRITE_HANDLE_REGISTRY, channel, flags)
        chan3 == IF wopen THEN chan2 @@ (fresh_w :> NewChannel) ELSE chan2
        chan4 == [chan3 EXCEPT ![wh].notify = NotifyFor(wreg, rreg)]
        chan5 == [chan4 EXCEPT ![rh] = [Reprogram(@, timing)
                                          EXCEPT !.driver_mode = driver_mode]]
        chan6 == IF driver_mode # "canDRIVER_SILENT"
                 THEN [chan5 EXCEPT ![wh] = [Reprogram(@, timing)
                                               EXCEPT !.driver_mode = driver_mode]]
                 ELSE chan5
        self == Len(buses) + 1
    IN  /\ Len(buses) < MaxBuses
        /\ canlib_opened' = fresh_w + (IF wopen THEN 1 ELSE 0)
        /\ READ_HANDLE_REGISTRY' =
               [rreg EXCEPT ![rh].listeners = Append(@, self)]
        /\ WRITE_HANDLE_REGISTRY' = wreg
        /\ canlib_chan' = chan6
        /\ buses' = Append(buses, [channel |-> channel, flags |-> flags,
                                   _read_handle |-> rh, _write_handle |-> wh,
                                   driver_mode |-> driver_mode,
                                   rx_queue |-> <<>>])

RegNext ==
    \E channel \in Channels, flags \in FlagValues, timing \in Timings,
       driver_mode \in DriverModes :
        Bus__init__(channel, flags, timing, driver_mode)

(***************************************************************************)
(* pycanlib/CAN.py: the receive path of a read handle                      *)
(***************************************************************************)

\* _Handle.__init__ (lines 365-376) for the read handle, and the driver's
\* receive buffer just flushed.
ReadInit ==
    /\ reading = FALSE
    /\ receive_callback_enabled = TRUE
    /\ handle_listeners = <<>>
    /\ rx_queue = [b \in Sinks |-> <<>>]
    /\ canlib_rx = <<>>
    /\ rx_notify = 0
    /\ arrived = 0
    /\ rc_pc = [t \in RxThreads |-> "idle"]
    /\ rc_msg = [t \in RxThreads |-> 0]
    /\ rc_idx = [t \in RxThreads |-> 0]

\* Bus.__init__ line 821: self._read_handle.add_listener(self), i.e.
\* _Handle.add_listener: self.listeners.append(listener).
handle_add_listener(b) ==
    /\ \A i \in 1..Len(handle_listeners) : handle_listeners[i] # b
    /\ handle_listeners' = Append(handle_listeners, b)
    /\ UNCHANGED <<reading, receive_callback_enabled, rx_queue, rc_pc, rc_msg, rc_idx>>
    /\ UNCHANGED <<canlib_rx, rx_notify, arrived>>

\* The hardware receives a frame: it enters the driver's receive buffer and
\* the driver has a canNOTIFY_RX notification to deliver.
canlib_frame_arrives ==
    /\ arrived < MaxRxFrames
    /\ arrived' = arrived + 1
    /\ canlib_rx' = Append(canlib_rx, arrived + 1)
    /\ rx_notify' = rx_notify + 1
    /\ UNCHANGED rdProgram

\* The driver invokes RX_CALLBACK on thread t: _receive_callback finds the
\* handle in the registry and calls its receive_callback.
_receive_callback(t) ==
    /\ rc_pc[t] = "idle"
    /\ rx_notify > 0
    /\ ~rx_flushed
    /\ rx_notify' = rx_notify - 1
    /\ rc_pc' = [rc_pc EXCEPT ![t] = "guard"]
    /\ UNCHANGED <<reading, receive_callback_enabled, handle_listeners, rx_queue,
                   rc_msg, rc_idx>>
    /\ UNCHANGED <<canlib_rx, arrived>>

\* receive_callback line 412: the test of the guard.
ReadGuard == ~reading /\ receive_callback_enabled

\* receive_callback, line 412: `if not self.reading and
\* self.receive_callback_enabled`; otherwise the call returns.
receive_callback_guard(t) ==
    /\ rc_pc[t] = "guard"
    /\ rc_pc' = [rc_pc EXCEPT ![t] = IF ReadGuard THEN "set" ELSE "idle"]
    /\ UNCHANGED <<reading, receive_callback_enabled, handle_listeners, rx_queue,
                   rc_msg, rc_idx>>
    /\ UNCHANGED <<canlib_rx, rx_notify, arrived>>

\* receive_callback, line 413: self.reading = True.
receive_callback_set(t) ==
    /\ rc_pc[t] = "set"
    /\ reading' = TRUE
    /\ rc_pc' = [rc_pc EXCEPT ![t] = "read"]
    /\ UNCHANGED <<receive_callback_enabled, handle_listeners, rx_queue, rc_msg, rc_idx>>
    /\ UNCHANGED <<canlib_rx, rx_notify, arrived>>

\* receive_callback, lines 419-430 and 433-436: canRead returns canOK with
\* the oldest frame of the driver's buffer and a Message is built from it, or
\* reports that there is no more data and the while loop ends.
receive_callback_canRead(t) ==
    /\ rc_pc[t] = "read"
    /\ IF canlib_rx # <<>>
       THEN /\ rc_msg' = [rc_msg EXCEPT ![t] = Head(canlib_rx)]
            /\ canlib_rx' = Tail(canlib_rx)
            /\ rc_idx' = [rc_idx EXCEPT ![t] = 1]
            /\ rc_pc' = [rc_pc EXCEPT ![t] = "fanout"]
       ELSE /\ rc_pc' = [rc_pc EXCEPT ![t] = "rearm"]
            /\ UNCHANGED <<rc_msg, canlib_rx, rc_idx>>
    /\ UNCHANGED <<reading, receive_callback_enabled, handle_listeners, rx_queue>>
    /\ UNCHANGED <<rx_notify, arrived>>

\* receive_callback, lines 431-432: _listener.on_message_received(_rx_msg);
\* the listener is a Bus, whose on_message_received (line 848) is
\* self.rx_queue.put_nowait(msg).  After the last listener the loop goes
\* back to canRead.
receive_callback_fanout(t) ==
    /\ rc_pc[t] = "fanout"
    /\ IF rc_idx[t] <= Len(handle_listeners)
       THEN /\ rx_queue' = [rx_queue EXCEPT ![handle_listeners[rc_idx[t]]] =
                                Append(@, rc_msg[t])]
            /\ rc_idx' = [rc_idx EXCEPT ![t] = @ + 1]
            /\ UNCHANGED rc_pc
       ELSE /\ rc_pc' = [rc_pc EXCEPT ![t] = "read"]
            /\ UNCHANGED <<rx_queue, rc_idx>>
    /\ UNCHANGED <<reading, receive_callback_enabled, handle_listeners, rc_msg>>
    /\ UNCHANGED <<canlib_rx, rx_notify, arrived>>

\* receive_callback, lines 441-442: kvSetNotifyCallback(..., canNOTIFY_RX).
receive_callback_rearm(t) ==
    /\ rc_pc[t] = "rearm"
    /\ rc_pc' = [rc_pc EXCEPT ![t] = "clear"]
    /\ UNCHANGED <<reading, receive_callback_enabled, handle_listeners, rx_queue,
                   rc_msg, rc_idx>>
    /\ UNCHANGED <<canlib_rx, rx_notify, arrived>>

\* receive_callback, line 443: self.reading = False.
receive_callback_clear(t) ==
    /\ rc_pc[t] = "clear"
    /\ reading' = FALSE
    /\ rc_pc' = [rc_pc EXCEPT ![t] = "idle"]
    /\ UNCHANGED <<receive_callback_enabled, handle_listeners, rx_queue, rc_msg, rc_idx>>
    /\ UNCHANGED <<canlib_rx, rx_notify, arrived>>

ReadNext ==
    \/ \E b \in Sinks : handle_add_listener(b)
    \/ canlib_frame_arrives
    \/ \E t \in RxThreads :
          \/ _receive_callback(t)
          \/ receive_callback_guard(t)
          \/ receive_callback_set(t)
          \/ receive_callback_canRead(t)
          \/ receive_callback_fanout(t)
          \/ receive_callback_rearm(t)
          \/ receive_callback_clear(t)

(***************************************************************************)
(* pycanlib/CAN.py: the transmit path of a write handle                    *)
(***************************************************************************)

\* _Handle.__init__ (lines 365-376) for the write handle.
WriteInit ==
    /\ writing = FALSE
    /\ transmit_callback_enabled = TRUE
    /\ tx_queue = <<>>
    /\ canlib_written = <<>>
    /\ tx_notify = 0
    /\ enqueued = <<>>
    /\ tc_pc = [t \in TxThreads |-> "idle"]
    /\ tc_old_size = [t \in TxThreads |-> 0]
    /\ tc_msg = [t \in TxThreads |-> 0]
    /\ tc_to_send = [t \in TxThreads |-> 0]

\* Messages are numbered in the order Bus.write is called.
NextMsg == 1 + Cardinality({t \in Writers : tc_pc[t] \in {"put"}}) + Len(enqueued)

\* Bus.write (driver mode not silent) calls _Handle.write(msg); write, line
\* 401: _old_size = self.tx_queue.qsize().
handle_write_qsize(t) ==
    /\ tc_pc[t] = "idle"
    /\ NextMsg <= MaxTx
    /\ tc_msg' = [tc_msg EXCEPT ![t] = NextMsg]
    /\ tc_old_size' = [tc_old_size EXCEPT ![t] = Len(tx_queue)]
    /\ tc_pc' = [tc_pc EXCEPT ![t] = "put"]
    /\ UNCHANGED <<writing, transmit_callback_enabled, tx_queue, tc_to_send>>
    /\ UNCHANGED <<canlib_written, tx_notify, enqueued>>

\* write, lines 402-404: self.tx_queue.put_nowait(msg), then
\* transmit_callback() if _old_size == 0, else the call returns.
handle_write_put(t) ==
    /\ tc_pc[t] = "put"
    /\ tx_queue' = Append(tx_queue, tc_msg[t])
    /\ enqueued' = Append(enqueued, tc_msg[t])
    /\ tc_pc' = [tc_pc EXCEPT ![t] = IF tc_old_size[t] = 0 THEN "guard" ELSE "idle"]
    /\ UNCHANGED <<writing, transmit_callback_enabled, tc_old_size, tc_msg, tc_to_send>>
    /\ UNCHANGED <<canlib_written, tx_notify>>

\* The driver invokes TX_CALLBACK: _transmit_callback finds the handle in
\* the registry and calls its transmit_callback.
_transmit_callback ==
    /\ tc_pc[TxNotifier] = "idle"
    /\ tx_notify > 0
    /\ ~tx_flushed
    /\ tx_notify' = tx_notify - 1
    /\ tc_pc' = [tc_pc EXCEPT ![TxNotifier] = "guard"]
    /\ UNCHANGED <<writing, transmit_callback_enabled, tx_queue, tc_old_size,
                   tc_msg, tc_to_send>>
    /\ UNCHANGED <<canlib_written, enqueued>>

\* transmit_callback line 384: the test of the guard.
WriteGuard == ~writing /\ transmit_callback_enabled

\* transmit_callback, line 384: `if not self.writing and
\* self.transmit_callback_enabled`; otherwise the call returns.
transmit_callback_guard(t) ==
    /\ tc_pc[t] = "guard"
    /\ tc_pc' = [tc_pc EXCEPT ![t] = IF WriteGuard THEN "set" ELSE "idle"]
    /\ UNCHANGED <<writing, transmit_callback_enabled, tx_queue, tc_old_size,
                   tc_msg, tc_to_send>>
    /\ UNCHANGED <<canlib_written, tx_notify, enqueued>>

\* transmit_callback, line 385: self.writing = True.
transmit_callback_set(t) ==
    /\ tc_pc[t] = "set"
    /\ writing' = TRUE
    /\ tc_pc' = [tc_pc EXCEPT ![t] = "get"]
    /\ UNCHANGED <<transmit_callback_enabled, tx_queue, tc_old_size, tc_msg, tc_to_send>>
    /\ UNCHANGED <<canlib_written, tx_notify, enqueued>>

\* A transmit_callback that reads the head of the queue and leaves it there.
transmit_callback_getPeeks(t) ==
    /\ tc_pc[t] = "get"
    /\ IF tx_queue # <<>>
       THEN /\ tc_to_send' = [tc_to_send EXCEPT ![t] = Head(tx_queue)]
            /\ tc_pc' = [tc_pc EXCEPT ![t] = "canWrite"]
            /\ UNCHANGED tx_queue
       ELSE /\ tc_pc' = [tc_pc EXCEPT ![t] = "clear"]
            /\ UNCHANGED <<tc_to_send, tx_queue>>
    /\ UNCHANGED <<writing, transmit_callback_enabled, tc_old_size, tc_msg>>
    /\ UNCHANGED <<canlib_written, tx_notify, enqueued>>

\* transmit_callback, lines 386-394: _to_send = self.tx_queue.get_nowait();
\* on Queue.Empty the handler goes on to self.writing = False and returns.
transmit_callback_get(t) ==
    /\ tc_pc[t] = "get"
    /\ IF tx_queue # <<>>
       THEN /\ tc_to_send' = [tc_to_send EXCEPT ![t] = Head(tx_queue)]
            /\ tx_queue' = Tail(tx_queue)
            /\ tc_pc' = [tc_pc EXCEPT ![t] = "canWrite"]
       ELSE /\ tc_pc' = [tc_pc EXCEPT ![t] = "clear"]
            /\ UNCHANGED <<tc_to_send, tx_queue>>
    /\ UNCHANGED <<writing, transmit_callback_enabled, tc_old_size, tc_msg>>
    /\ UNCHANGED <<canlib_written, tx_notify, enqueued>>

\* transmit_callback, lines 395-397: canlib.canWrite(...) of _to_send; the
\* hardware will signal transmit-complete for it.
transmit_callback_canWrite(t) ==
    /\ tc_pc[t] = "canWrite"
    /\ canlib_written' = Append(canlib_written, tc_to_send[t])
    /\ tx_notify' = tx_notify + 1
    /\ tc_pc' = [tc_pc EXCEPT ![t] = "clear"]
    /\ UNCHANGED <<writing, transmit_callback_enabled, tx_queue, tc_old_size,
                   tc_msg, tc_to_send>>
    /\ UNCHANGED enqueued

\* transmit_callback, lines 393 and 398: self.writing = False.
transmit_callback_clear(t) ==
    /\ tc_pc[t] = "clear"
    /\ writing' = FALSE
    /\ tc_pc' = [tc_pc EXCEPT ![t] = "idle"]
    /\ UNCHANGED <<transmit_callback_enabled, tx_queue, tc_old_size, tc_msg, tc_to_send>>
    /\ UNCHANGED <<canlib_written, tx_notify, enqueued>>

\* A step of a call in progress on the write handle, or the delivery of a
\* pending transmit-complete notification.
WriteProgress ==
    \/ \E t \in Writers : handle_write_put(t)
    \/ _transmit_callback
    \/ \E t \in TxThreads :
          \/ transmit_callback_guard(t)
          \/ transmit_callback_set(t)
          \/ transmit_callback_get(t)
          \/ transmit_callback_canWrite(t)
          \/ transmit_callback_clear(t)

WriteNext ==
    \/ \E t \in Writers : handle_write_qsize(t)
    \/ WriteProgress

(***************************************************************************)
(* pycanlib/CAN.py: _cleanup, registered with atexit                       *)
(***************************************************************************)

\* Before the interpreter exits: _cleanup has not run, and the attributes it
\* assigns do not exist on the handles.
CleanupInit ==
    /\ cl_pc = "start"
    /\ receiveCallbackEnabled = "unset"
    /\ transmitCallbackEnabled = "unset"
    /\ rx_flushed = FALSE
    /\ tx_flushed = FALSE

\* _cleanup, line 897: _handle.receiveCallbackEnabled = False.  The guard of
\* receive_callback reads self.receive_callback_enabled, another attribute,
\* which this assignment leaves as it is.
cleanup_disable_read ==
    /\ cl_pc = "start"
    /\ receiveCallbackEnabled' = "False"
    /\ cl_pc' = "wait_read"
    /\ UNCHANGED <<transmitCallbackEnabled, rx_flushed, tx_flushed>>
    /\ UNCHANGED <<rdVars, wrVars>>

\* _cleanup, lines 898-899: `while _handle.reading: pass` is left.
cleanup_wait_read ==
    /\ cl_pc = "wait_read"
    /\ ~reading
    /\ cl_pc' = "disable_write"
    /\ UNCHANGED <<receiveCallbackEnabled, transmitCallbackEnabled, rx_flushed,
                   tx_flushed>>
    /\ UNCHANGED <<rdVars, wrVars>>

\* _cleanup, line 904: _handle.transmitCallbackEnabled = False (not the
\* attribute transmit_callback_enabled that transmit_callback reads).
cleanup_disable_write ==
    /\ cl_pc = "disable_write"
    /\ transmitCallbackEnabled' = "False"
    /\ cl_pc' = "wait_write"
    /\ UNCHANGED <<receiveCallbackEnabled, rx_flushed, tx_flushed>>
    /\ UNCHANGED <<rdVars, wrVars>>

\* _cleanup, lines 905-906: `while _handle.writing: pass` is left.
cleanup_wait_write ==
    /\ cl_pc = "wait_write"
    /\ ~writing
    /\ cl_pc' = "flush_read"
    /\ UNCHANGED <<receiveCallbackEnabled, transmitCallbackEnabled, rx_flushed,
                   tx_flushed>>
    /\ UNCHANGED <<rdVars, wrVars>>

\* _cleanup, lines 909-913: kvSetNotifyCallback(handle, None, None, 0) and
\* canFlushReceiveQueue(handle): the driver delivers no further receive
\* notification and its receive buffer is emptied.
cleanup_flush_read ==
    /\ cl_pc = "flush_read"
    /\ rx_flushed' = TRUE
    /\ canlib_rx' = <<>>
    /\ rx_notify' = 0
    /\ cl_pc' = "flush_write"
    /\ UNCHANGED <<receiveCallbackEnabled, transmitCallbackEnabled, tx_flushed>>
    /\ UNCHANGED <<rdProgram, arrived, wrVars>>

\* _cleanup, lines 915-919: kvSetNotifyCallback(handle, None, None, 0) and
\* canFlushTransmitQueue(handle).
cleanup_flush_write ==
    /\ cl_pc = "flush_write"
    /\ tx_flushed' = TRUE
    /\ tx_notify' = 0
    /\ cl_pc' = "done"
    /\ UNCHANGED <<receiveCallbackEnabled, transmitCallbackEnabled, rx_flushed>>
    /\ UNCHANGED <<rdVars, wrProgram, canlib_written, enqueued>>

CleanupNext ==
    \/ cleanup_disable_read
    \/ cleanup_wait_read
    \/ cleanup_disable_write
    \/ cleanup_wait_write
    \/ cleanup_flush_read
    \/ cleanup_flush_write

(***************************************************************************)
(* pycanlib/CAN.py: Bus.read                                               *)
(***************************************************************************)

BusReadInit ==
    /\ read_log = [b \in Sinks |-> <<>>]
    /\ read_none = [b \in Sinks |-> 0]
    /\ drain_regs = [k \in 1..MaxRxFrames |-> {}]

\* rx_queue.get_nowait() on a queue q: the oldest element.
get_nowait(q) == Head(q)

\* Bus.read, lines 823-829: self.rx_queue.get_nowait() is returned, or None
\* when Queue.Empty is raised.
Bus_read(b) ==
    /\ \E i \in 1..Len(handle_listeners) : handle_listeners[i] = b
    /\ Len(read_log[b]) + read_none[b] < MaxReads
    /\ IF rx_queue[b] # <<>>
       THEN /\ read_log' = [read_log EXCEPT ![b] = Append(@, get_nowait(rx_queue[b]))]
            /\ rx_queue' = [rx_queue EXCEPT ![b] = Tail(@)]
            /\ UNCHANGED read_none
       ELSE /\ read_none' = [read_none EXCEPT ![b] = @ + 1]
            /\ UNCHANGED <<read_log, rx_queue>>
    /\ UNCHANGED <<reading, receive_callback_enabled, handle_listeners, rc_pc, rc_msg,
                   rc_idx>>
    /\ UNCHANGED <<canlib_rx, rx_notify, arrived, drain_regs>>

\* The buses in the handle's listener list.
Registered == {handle_listeners[i] : i \in 1..Len(handle_listeners)}

\* A step of the read handle; when it is a canRead that returns a frame, the
\* buses registered at that moment are recorded.
ReadStepRecorded ==
    /\ ReadNext
    /\ drain_regs' = IF Len(canlib_rx') < Len(canlib_rx)
                     THEN [drain_regs EXCEPT ![Head(canlib_rx)] = Registered]
                     ELSE drain_regs
    /\ UNCHANGED <<read_log, read_none>>

BusReadNext ==
    \/ ReadStepRecorded
    \/ \E b \in Sinks : Bus_read(b)

(***************************************************************************)
(* pycanlib/CAN.py: LogMessage.__init__ and Message.__init__               *)
(***************************************************************************)

\* Argument values carry their Python type: the isinstance tests of the
\* constructors look at it before any range test.
IntVal(n) == [t |-> "int", v |-> n]
FloatVal(n) == [t |-> "float", v |-> n]
StrVal == [t |-> "str", v |-> 0]
\* A payload argument is None (the default) or a list.
NonePayload == [none |-> TRUE, items |-> <<>>]
ListPayload(q) == [none |-> FALSE, items |-> q]

\* The list [1, 2, ..., n].
Ramp(n) == [i \in 1..n |-> IntVal(i)]

TimestampArgs == {FloatVal(0 - 1), FloatVal(0), IntVal(1), StrVal}
DeviceIdArgs == {IntVal(0 - 1), IntVal(0), IntVal(2^11 - 1), IntVal(2^11),
                 IntVal(2^29 - 1), IntVal(2^29), StrVal}
PayloadArgs ==
    {NonePayload}
      \cup {ListPayload(Ramp(n)) : n \in 0..MaxPayloadLen}
      \cup {ListPayload(<<x>>) : x \in {IntVal(0), IntVal(2^8 - 1), IntVal(2^8),
                                         IntVal(0 - 1), StrVal}}
      \cup {ListPayload(<<IntVal(1), IntVal(2^8)>>),
            ListPayload(<<IntVal(1), StrVal, IntVal(2^8)>>)}
DlcArgs == {IntVal(0 - 1), IntVal(0), IntVal(1), IntVal(8), IntVal(9), StrVal}
FlagsArgs == {IntVal(0 - 1), IntVal(0), IntVal(4), IntVal(2^16 - 1), IntVal(2^16),
              StrVal}

\* raise InvalidMessageParameterError(parameter_name, parameter_value, ...):
\* InvalidParameterError.__init__, lines 74-87, stores both.
InvalidMessageParameterError(parameter_name, parameter_value) ==
    [kind |-> "InvalidMessageParameterError", parameter_name |-> parameter_name,
     parameter_value |-> parameter_value]

\* The bit of the flags word that marks a frame as having an extended
\* (29-bit) identifier.
canMSG_EXT == 4

\* The ranges tested with `not in range(...)`.
DeviceIdRangeWide == 0..(2^12 - 1)
DeviceIdRange == 0..(2^11 - 1)
PayloadLenRange == 0..8
ByteRange == 0..(2^8 - 1)
DlcRange == 0..8
FlagsRange == 0..(2^16 - 1)

\* LogMessage.__init__, lines 144-157: the timestamp is a float or an int,
\* and not negative; the result is the error raised, or "ok".
LogMessage__init__(timestamp) ==
    IF timestamp.t \notin {"float", "int"}
    THEN InvalidMessageParameterError("timestamp", timestamp)
    ELSE IF timestamp.v < 0
    THEN InvalidMessageParameterError("timestamp", timestamp)
    ELSE [kind |-> "ok"]

\* Lines 262-269: some item of the list is not an int or not a byte value.
BadItem(q) == \E i \in 1..Len(q) : q[i].t # "int" \/ q[i].v \notin ByteRange

\* Message.__init__, lines 247-284: the tests in the order of the code; the
\* first that fails raises, and when none fails the five attributes hold
\* the arguments (payload None having been replaced by []).
Message__init__(device_id, payload_arg, dlc, flags, timestamp) ==
    LET payload == IF payload_arg.none THEN <<>> ELSE payload_arg.items
    IN  IF LogMessage__init__(timestamp).kind # "ok"
        THEN LogMessage__init__(timestamp)
        ELSE IF device_id.t # "int"
        THEN InvalidMessageParameterError("device_id", device_id)
        ELSE IF device_id.v \notin DeviceIdRange
        THEN InvalidMessageParameterError("device_id", device_id)
        ELSE IF Len(payload) \notin PayloadLenRange
        THEN InvalidMessageParameterError("payload", payload)
        ELSE IF BadItem(payload)
        THEN InvalidMessageParameterError("payload", payload)
        ELSE IF dlc.t # "int"
        THEN InvalidMessageParameterError("dlc", dlc)
        ELSE IF dlc.v \notin DlcRange
        THEN InvalidMessageParameterError("dlc", dlc)
        ELSE IF flags.t # "int"
        THEN InvalidMessageParameterError("flags", flags)
        ELSE IF flags.v \notin FlagsRange
        THEN InvalidMessageParameterError("flags", flags)
        ELSE [kind |-> "Message", timestamp |-> timestamp, device_id |-> device_id,
              payload |-> payload, dlc |-> dlc, flags |-> flags]

\* No constructor call has been made; the arguments are the defaults of
\* Message.__init__, line 223.
MessageIdle ==
    /\ msg_in = [device_id |-> IntVal(0), payload |-> NonePayload, dlc |-> IntVal(0),
                 flags |-> IntVal(0), timestamp |-> FloatVal(0)]
    /\ msg_out = [kind |-> "pending"]

MessageInit ==
    /\ msg_in \in [device_id : DeviceIdArgs, payload : PayloadArgs, dlc : DlcArgs,
                    flags : FlagsArgs, timestamp : TimestampArgs]
    /\ msg_out = [kind |-> "pending"]

\* One call Message(device_id, payload, dlc, flags, timestamp).
Message_construct ==
    /\ msg_out.kind = "pending"
    /\ msg_out' = Message__init__(msg_in.device_id, msg_in.payload, msg_in.dlc,
                                  msg_in.flags, msg_in.timestamp)
    /\ UNCHANGED msg_in

MessageNext == Message_construct

(***************************************************************************)
(* can/interfaces/socketcand_bus.py: text helpers                          *)
(* A str is a sequence of one-character strings.                           *)
(***************************************************************************)

HexUpper == <<"0", "1", "2", "3", "4", "5", "6", "7", "8", "9", "A", "B", "C", "D", "E", "F">>
HexLower == <<"0", "1", "2", "3", "4", "5", "6", "7", "8", "9", "a", "b", "c", "d", "e", "f">>
DecDigits == {"0", "1", "2", "3", "4", "5", "6", "7", "8", "9"}

\* "{:X}".format(n) and "{:x}".format(n) for n >= 0: no padding, no prefix.
RECURSIVE FormatHex(_, _)
FormatHex(n, digits) ==
    IF n < 16
    THEN <<digits[n + 1]>>
    ELSE Append(FormatHex(n \div 16, digits), digits[(n % 16) + 1])

\* sep.join(tokens)
RECURSIVE join(_, _)
join(sep, tokens) ==
    IF tokens = <<>> THEN <<>>
    ELSE IF Len(tokens) = 1 THEN tokens[1]
    ELSE tokens[1] \o sep \o join(sep, Tail(tokens))

startswith(str, prefix) ==
    Len(str) >= Len(prefix) /\ SubSeq(str, 1, Len(prefix)) = prefix
endswith(str, suffix) ==
    Len(str) >= Len(suffix) /\ SubSeq(str, Len(str) - Len(suffix) + 1, Len(str)) = suffix
removeprefix(str, prefix) ==
    IF startswith(str, prefix) THEN SubSeq(str, Len(prefix) + 1, Len(str)) ELSE str
removesuffix(str, suffix) ==
    IF endswith(str, suffix) THEN SubSeq(str, 1, Len(str) - Len(suffix)) ELSE str

\* str.split(" ", maxsplit): cut at single spaces, at most maxsplit times;
\* two spaces in a row give an empty part.
RECURSIVE split(_, _)
split(str, maxsplit) ==
    IF maxsplit = 0 \/ \A i \in 1..Len(str) : str[i] # " "
    THEN <<str>>
    ELSE LET i == CHOOSE k \in 1..Len(str) :
                    str[k] = " " /\ \A j \in 1..(k - 1) : str[j] # " "
         IN  <<SubSeq(str, 1, i - 1)>> \o split(SubSeq(str, i + 1, Len(str)), maxsplit - 1)

IsHexDigit(c) == \E k \in 1..16 : HexUpper[k] = c \/ HexLower[k] = c
HexDigitValue(c) == (CHOOSE k \in 1..16 : HexUpper[k] = c \/ HexLower[k] = c) - 1
DecDigitValue(c) == HexDigitValue(c)

\* int(str, 16) on a str of hex digits; any other str of the lines used here
\* (empty, or holding another character) raises ValueError.
IntBase16Accepts(str) == str # <<>> /\ \A i \in 1..Len(str) : IsHexDigit(str[i])
RECURSIVE IntBase16(_)
IntBase16(str) ==
    IF str = <<>> THEN 0
    ELSE IntBase16(SubSeq(str, 1, Len(str) - 1)) * 16 + HexDigitValue(str[Len(str)])

\* float(str) on decimal text "d", "d.d", "d." or ".d"; any other str of the
\* lines used here raises ValueError.  The value is kept as the pair of the
\* whole part and the fraction digits.
FloatAccepts(str) ==
    /\ \E i \in 1..Len(str) : str[i] \in DecDigits
    /\ \A i \in 1..Len(str) : str[i] \in DecDigits \cup {"."}
    /\ Cardinality({i \in 1..Len(str) : str[i] = "."}) <= 1
RECURSIVE IntBase10(_)
IntBase10(str) ==
    IF str = <<>> THEN 0
    ELSE IntBase10(SubSeq(str, 1, Len(str) - 1)) * 10 + DecDigitValue(str[Len(str)])
float(str) ==
    LET parts == split([i \in 1..Len(str) |-> IF str[i] = "." THEN " " ELSE str[i]], 1)
    IN  [whole |-> IntBase10(parts[1]),
         frac |-> IF Len(parts) > 1 THEN parts[2] ELSE <<>>]

\* bytearray.fromhex(str) on a str without whitespace: pairs of hex digits;
\* an odd number of digits or another character raises ValueError.
FromhexAccepts(str) ==
    Len(str) % 2 = 0 /\ \A i \in 1..Len(str) : IsHexDigit(str[i])
fromhexPerDigit(str) == [i \in 1..Len(str) |-> HexDigitValue(str[i])]
fromhex(str) ==
    [i \in 1..(Len(str) \div 2) |->
        HexDigitValue(str[2 * i - 1]) * 16 + HexDigitValue(str[2 * i])]

(***************************************************************************)
(* can/interfaces/socketcand_bus.py: the two conversions                   *)
(***************************************************************************)

FramePrefix == <<"<", " ", "f", "r", "a", "m", "e", " ">>
SendPrefix == <<"<", " ", "s", "e", "n", "d", " ">>
LineSuffix == <<" ", ">">>
Space == <<" ">>

\* can.Message(timestamp=..., arbitration_id=..., data=..., dlc=...)
CanMessage(timestamp, arbitration_id, data, dlc) ==
    [kind |-> "Message", timestamp |-> timestamp, arbitration_id |-> arbitration_id,
     data |-> data, dlc |-> dlc]

\* convert_ascii_message_to_can_message, lines 25-39.  The result is the
\* Message, None (the envelope test failed), or the exception that leaves
\* the function: parts[k] beyond the list raises IndexError, a conversion
\* of a bad token ValueError, in the order the code evaluates them.
convert_ascii_message_to_can_message(ascii_message) ==
    IF ~startswith(ascii_message, FramePrefix) \/ ~endswith(ascii_message, LineSuffix)
    THEN [kind |-> "None"]
    ELSE LET frame_string == removesuffix(removeprefix(ascii_message, FramePrefix),
                                          LineSuffix)
             parts == split(frame_string, 3)
         IN  IF ~IntBase16Accepts(parts[1]) THEN [kind |-> "ValueError"]
             ELSE IF Len(parts) < 2 THEN [kind |-> "IndexError"]
             ELSE IF ~FloatAccepts(parts[2]) THEN [kind |-> "ValueError"]
             ELSE IF Len(parts) < 3 THEN [kind |-> "IndexError"]
             ELSE IF ~FromhexAccepts(parts[3]) THEN [kind |-> "ValueError"]
             ELSE CanMessage(float(parts[2]), IntBase16(parts[1]), fromhex(parts[3]),
                             Len(fromhex(parts[3])))

\* data[0:length]
Slice(data, length) == SubSeq(data, 1, IF length < Len(data) THEN length ELSE Len(data))

\* convert_can_message_to_ascii_message, lines 42-51.
convert_can_message_to_ascii_message(can_message) ==
    LET can_id == can_message.arbitration_id
        data == can_message.data
        length == can_message.dlc
        bytes_string == join(Space, [i \in 1..Len(Slice(data, length)) |->
                                        FormatHex(data[i], HexLower)])
    IN  SendPrefix \o FormatHex(can_id, HexUpper) \o Space \o FormatHex(length, HexUpper)
          \o Space \o bytes_string \o LineSuffix

(***************************************************************************)
(* The daemon between the two conversions                                  *)
(***************************************************************************)

\* Two hex digits for one byte, as the inbound grammar has them.
FormatByte(n) == <<HexUpper[(n \div 16) + 1], HexUpper[(n % 16) + 1]>>

RECURSIVE concat(_)
concat(tokens) == IF tokens = <<>> THEN <<>> ELSE tokens[1] \o concat(Tail(tokens))

\* The "< frame ID TIMESTAMP DATA >" line with which the daemon reports the
\* frame it was asked to send with `line`: the ID as sent, its own
\* timestamp, and the byte tokens of `line` (at most LEN of them) as one
\* string of two hex digits per byte.
FrameLineFor(line, timestamp) ==
    LET tokens == split(removesuffix(removeprefix(line, SendPrefix), LineSuffix), 0 - 1)
        len == IntBase16(tokens[2])
        byte_tokens == SelectSeq(SubSeq(tokens, 3, Len(tokens)), LAMBDA t : t # <<>>)
        bytes == [i \in 1..(IF len < Len(byte_tokens) THEN len ELSE Len(byte_tokens)) |->
                     IntBase16(byte_tokens[i])]
    IN  FramePrefix \o tokens[1] \o Space \o timestamp \o Space
          \o concat([i \in 1..Len(bytes) |-> FormatByte(bytes[i])]) \o LineSuffix

(***************************************************************************)
(* Encoding a frame and decoding the daemon's report of it                 *)
(***************************************************************************)

CodecIds == {0, 1, 15, 16, 255, 2^11 - 1, 2^11, 2^29 - 1}
CodecBytes == {0, 10, 16, 255}
CodecTimestamps == {<<"0", ".", "5">>, <<"1", "7", "0", "0", "0", "0", "0", "0", "0", "0", ".", "2", "5">>}
\* Payloads of every length up to 8, and every short payload over CodecBytes.
CodecPayloads ==
    {[i \in 1..n |-> (i * 37) % 2^8] : n \in 0..8}
      \cup UNION {[1..n -> CodecBytes] : n \in 0..MaxCodecLen}
\* The dlc of a frame is the length of its data, or off by one.
CodecDlcs(data) == {n \in {Len(data) - 1, Len(data), Len(data) + 1} : n \in 0..8}

CodecIdle ==
    /\ codec_msg = CanMessage(float(<<"0">>), 0, <<>>, 0)
    /\ codec_ts = <<"0">>
    /\ codec_line = <<>>
    /\ codec_back = [kind |-> "pending"]
    /\ codec_pc = "new"

CodecInit ==
    /\ \E arbitration_id \in CodecIds, data \in CodecPayloads :
         \E dlc \in CodecDlcs(data) :
            codec_msg = CanMessage(float(<<"0">>), arbitration_id, data, dlc)
    /\ codec_ts \in CodecTimestamps
    /\ codec_line = <<>>
    /\ codec_back = [kind |-> "pending"]
    /\ codec_pc = "new"

\* SocketCanDaemonBus.send, line 110: the frame becomes a line.
codec_encode ==
    /\ codec_pc = "new"
    /\ codec_line' = convert_can_message_to_ascii_message(codec_msg)
    /\ codec_pc' = "encoded"
    /\ UNCHANGED <<codec_msg, codec_ts, codec_back>>

\* _recv_internal, lines 97-99: the daemon's line for that frame is decoded.
codec_decode ==
    /\ codec_pc = "encoded"
    /\ codec_back' = convert_ascii_message_to_can_message(
                         FrameLineFor(codec_line, codec_ts))
    /\ codec_pc' = "decoded"
    /\ UNCHANGED <<codec_msg, codec_ts, codec_line>>

CodecNext == codec_encode \/ codec_decode

(***************************************************************************)
(* can/interfaces/socketcand_bus.py: SocketCanDaemonBus._recv_internal     *)
(***************************************************************************)

\* A byte that is not ASCII: bytes.decode("ascii") raises on it.
NonAscii == "nonascii"

FrameLine(id, timestamp, data) ==
    FramePrefix \o id \o Space \o timestamp \o Space \o data \o LineSuffix

\* What one socket.recv may hand over: frame lines of the daemon, other
\* lines, cut and damaged ones, and the empty read of a closed connection.
InboundLines ==
    {FrameLine(<<"1", "2", "3">>, <<"0", ".", "5">>, <<"1", "1", "2", "2", "3", "3", "4", "4">>),
     FrameLine(<<"7", "f", "f">>, <<"1", "2">>, <<"0", "A">>),
     FrameLine(<<"1", "F", "F", "F", "F", "F", "F", "F">>, <<"0", ".", "5">>, <<>>),
     FrameLine(<<"1", "2", "3">>, <<"0", ".", "5">>, <<"1", "1", " ", "2", "2">>),
     <<>>,
     <<"g", "a", "r", "b", "a", "g", "e">>,
     <<"<", " ", "o", "k", " ", ">">>,
     <<"<", " ", "f", "r", "a", "m", "e", " ", "1", "2", "3", " ", "0", ".", "5", " ", "1", "1">>,
     <<"<", " ", "s", "e", "n", "d", " ", "1", "2", "3", " ", "1", " ", "1", "1", " ", ">">>,
     <<"<", " ", "f", "r", "a", "m", "e", " ", ">">>,
     <<"<", " ", "f", "r", "a", "m", "e", " ", " ", ">">>,
     <<"<", " ", "f", "r", "a", "m", "e", " ", "1", "2", "3", " ", ">">>,
     <<"<", " ", "f", "r", "a", "m", "e", " ", "1", "2", "3", " ", "0", ".", "5", " ", ">">>,
     FrameLine(<<>>, <<"0", ".", "5">>, <<"1", "1">>),
     FrameLine(<<"x", "y", "z">>, <<"0", ".", "5">>, <<"1", "1">>),
     FrameLine(<<"1", "2", "3">>, <<"a", "b", "c">>, <<"1", "1">>),
     FrameLine(<<"1", "2", "3">>, <<"0", ".", "5">>, <<"z", "z">>),
     FrameLine(<<"1", "2", "3">>, <<"0", ".", "5">>, <<"1", "1", "2">>),
     FrameLine(<<"1", "2", "3">>, <<"0", ".", "5">>, <<"1", "1", NonAscii>>)}

\* How a call ends: `return value, False` or an exception leaving it.
Return(value) == [kind |-> "return", value |-> value, filtered |-> FALSE]
Raise(exception) == [kind |-> "raise", value |-> [kind |-> exception], filtered |-> FALSE]
Pending == [kind |-> "pending", value |-> [kind |-> "None"], filtered |-> FALSE]

RecvIdle ==
    /\ sock_open = TRUE
    /\ inbound = <<>>
    /\ lines_sent = 0
    /\ ri_calls = 0
    /\ ri_pc = "idle"
    /\ ri_select = "none"
    /\ ri_selects = 0
    /\ ri_reads = 0
    /\ ri_ret = Pending

\* The daemon writes a line to the connection.
daemon_sends(line) ==
    /\ sock_open
    /\ lines_sent < MaxInbound
    /\ lines_sent' = lines_sent + 1
    /\ inbound' = Append(inbound, line)
    /\ UNCHANGED <<sock_open, ri_calls, ri_pc, ri_select, ri_selects, ri_reads, ri_ret>>

\* SocketCanDaemonBus.shutdown, lines 113-115: the socket is closed.
socketcand_shutdown ==
    /\ sock_open
    /\ sock_open' = FALSE
    /\ UNCHANGED <<inbound, lines_sent, ri_calls, ri_pc, ri_select, ri_selects,
                   ri_reads, ri_ret>>

\* _recv_internal(timeout) is called.
recv_internal_call ==
    /\ ri_pc = "idle"
    /\ ri_calls < MaxRecvCalls
    /\ ri_calls' = ri_calls + 1
    /\ ri_pc' = "select"
    /\ ri_select' = "none"
    /\ ri_selects' = 0
    /\ ri_reads' = 0
    /\ ri_ret' = Pending
    /\ UNCHANGED <<sock_open, inbound, lines_sent>>

\* Lines 87-89: select.select([socket], [], [], timeout).  It reports the socket
\* readable when a line waits, times out when none does, or fails with a
\* socket error; on a closed socket it raises ValueError.
recv_internal_select ==
    /\ ri_pc = "select"
    /\ ri_selects' = ri_selects + 1
    /\ \E outcome \in {"ready", "timeout", "error", "closed"} :
         /\ outcome = "closed" <=> ~sock_open
         /\ outcome = "ready" => inbound # <<>>
         /\ outcome = "timeout" => inbound = <<>>
         /\ ri_select' = outcome
    /\ ri_pc' = "selected"
    /\ UNCHANGED <<sock_open, inbound, lines_sent, ri_calls, ri_reads, ri_ret>>

\* Lines 90-103: where the call goes after select: the except clause for
\* socket.error, the `if ready_receive_sockets` branch, or the last line.
AfterSelectRetries(outcome) ==
    IF outcome = "error" THEN "select"
    ELSE IF outcome = "ready" THEN "recv" ELSE "idle"
AfterSelect(outcome) == IF outcome = "ready" THEN "recv" ELSE "idle"

recv_internal_branch ==
    /\ ri_pc = "selected"
    /\ ri_pc' = AfterSelect(ri_select)
    /\ ri_ret' = IF ri_pc' # "idle" THEN ri_ret
                 ELSE IF ri_select = "error" THEN Raise("CanError")
                 ELSE IF ri_select = "closed" THEN Raise("ValueError")
                 ELSE Return([kind |-> "None"])
    /\ UNCHANGED <<sock_open, inbound, lines_sent, ri_calls, ri_select, ri_selects,
                   ri_reads>>

\* Lines 95-100: socket.recv(1024), .decode("ascii"), the conversion, and
\* `return can_message, False`.  Nothing here is inside a try: an exception
\* of recv, of decode or of the conversion leaves _recv_internal.
recv_internal_recv ==
    /\ ri_pc = "recv"
    /\ ri_reads' = ri_reads + 1
    /\ ri_pc' = "idle"
    /\ IF ~sock_open
       THEN ri_ret' = Raise("OSError") /\ UNCHANGED inbound
       ELSE LET ascii_message == Head(inbound)
                can_message == convert_ascii_message_to_can_message(ascii_message)
            IN  /\ inbound' = Tail(inbound)
                /\ ri_ret' =
                     IF \E i \in 1..Len(ascii_message) : ascii_message[i] = NonAscii
                     THEN Raise("UnicodeDecodeError")
                     ELSE IF can_message.kind \in {"ValueError", "IndexError"}
                     THEN Raise(can_message.kind)
                     ELSE Return(can_message)
    /\ UNCHANGED <<sock_open, lines_sent, ri_calls, ri_select, ri_selects>>

RecvNext ==
    \/ \E line \in InboundLines : daemon_sends(line)
    \/ socketcand_shutdown
    \/ recv_internal_call
    \/ recv_internal_select
    \/ recv_internal_branch
    \/ recv_internal_recv

(***************************************************************************)
(* can/interfaces/socketcand_bus.py: connect_to_server                     *)
(***************************************************************************)

\* Line 55: timeout_ms = 10000.
timeout_ms == 10000
\* The clock is observed in steps of TickMs milliseconds, up to MaxTicks
\* steps.
TickMs == 2500

ConnectIdle ==
    /\ clock = 0
    /\ cs_pc = "new"
    /\ cs_now = 0
    /\ cs_end_time = 0
    /\ cs_connected = FALSE
    /\ cs_attempts = 0

\* Time passes.
time_passes ==
    /\ clock < MaxTicks * TickMs
    /\ clock' = clock + TickMs
    /\ UNCHANGED <<cs_pc, cs_now, cs_end_time, cs_connected, cs_attempts>>

\* Lines 54-57: the call starts; now and end_time are set.  (The call is
\* made early enough for the modelled time to reach past end_time.)
connect_to_server ==
    /\ cs_pc = "new"
    /\ clock + timeout_ms + TickMs <= MaxTicks * TickMs
    /\ cs_now' = clock
    /\ cs_end_time' = clock + timeout_ms
    /\ cs_pc' = "loop"
    /\ UNCHANGED <<clock, cs_connected, cs_attempts>>

\* Line 58: the loop condition.
LoopCondAlways == TRUE
LoopCond == cs_now < cs_end_time

\* Line 58, and lines 65-67 when the loop is left: raise TimeoutError.
connect_loop ==
    /\ cs_pc = "loop"
    /\ cs_pc' = IF LoopCond THEN "connect" ELSE "raised"
    /\ UNCHANGED <<clock, cs_now, cs_end_time, cs_connected, cs_attempts>>

\* One more attempt, counted up to MaxAttempts.
Attempted == IF cs_attempts < MaxAttempts THEN cs_attempts + 1 ELSE cs_attempts

\* Lines 60-61: s.connect((host, port)) succeeds; return.
connect_succeeds ==
    /\ cs_pc = "connect"
    /\ cs_connected' = TRUE
    /\ cs_attempts' = Attempted
    /\ cs_pc' = "returned"
    /\ UNCHANGED <<clock, cs_now, cs_end_time>>

\* Lines 62-64: s.connect raises; the exception is logged and now is read
\* from the clock again.
connect_fails ==
    /\ cs_pc = "connect"
    /\ cs_attempts' = Attempted
    /\ cs_now' = clock
    /\ cs_pc' = "loop"
    /\ UNCHANGED <<clock, cs_end_time, cs_connected>>

\* The steps of the thread inside connect_to_server.
ConnectProgress == connect_loop \/ connect_succeeds \/ connect_fails

ConnectNext == time_passes \/ connect_to_server \/ ConnectProgress

(***************************************************************************)
(* can/interfaces/socketcand_bus.py: SocketCanDaemonBus.__init__ and send  *)
(***************************************************************************)

HsChannels == {<<"c", "a", "n", "0">>, <<"v", "c", "a", "n", "1">>}
OpenLine(channel) == <<"<", " ", "o", "p", "e", "n", " ">> \o channel \o LineSuffix
RawmodeLine == <<"<", " ", "r", "a", "w", "m", "o", "d", "e", " ", ">">>

HandshakeIdle ==
    /\ hs_pc = "new"
    /\ hs_channel = <<"c", "a", "n", "0">>
    /\ hs_sent = <<>>
    /\ hs_threads = FALSE

HandshakeInit ==
    /\ hs_pc = "new"
    /\ hs_channel \in HsChannels
    /\ hs_sent = <<>>
    /\ hs_threads = FALSE

\* Lines 71-75: SocketCanDaemonBus(channel, host, port) creates the socket
\* and calls connect_to_server.
SocketCanDaemonBus__init__ ==
    /\ hs_pc = "new"
    /\ connect_to_server
    /\ hs_pc' = "connecting"
    /\ UNCHANGED <<hs_channel, hs_sent, hs_threads>>

\* Where __init__ goes on when connect_to_server has returned (line 79).
AfterConnectSkipsOpen == "rawmode"
AfterConnect == "open"

\* Line 75 ends: connect_to_server returned, or its TimeoutError leaves
\* __init__.
init_connected ==
    /\ hs_pc = "connecting"
    /\ cs_pc \in {"returned", "raised"}
    /\ hs_pc' = IF cs_pc = "returned" THEN AfterConnect ELSE "failed"
    /\ UNCHANGED <<hs_channel, hs_sent, hs_threads, connVars>>

\* _tcp_send, lines 105-107, called from line 79 with "< open {channel} >":
\* sendall writes the message, or raises and __init__ is left.
init_send_open ==
    /\ hs_pc = "open"
    /\ \/ hs_sent' = Append(hs_sent, OpenLine(hs_channel)) /\ hs_pc' = "rawmode"
       \/ hs_pc' = "failed" /\ UNCHANGED hs_sent
    /\ UNCHANGED <<hs_channel, hs_threads, connVars>>

\* _tcp_send called from line 80 with "< rawmode >".
init_send_rawmode ==
    /\ hs_pc = "rawmode"
    /\ \/ hs_sent' = Append(hs_sent, RawmodeLine) /\ hs_pc' = "super"
       \/ hs_pc' = "failed" /\ UNCHANGED hs_sent
    /\ UNCHANGED <<hs_channel, hs_threads, connVars>>

\* Line 81: super().__init__(...), BusABC.__init__, starts the tx and rx
\* threads; the constructor returns.
init_super ==
    /\ hs_pc = "super"
    /\ hs_threads' = TRUE
    /\ hs_pc' = "ready"
    /\ UNCHANGED <<hs_channel, hs_sent, connVars>>

\* send, lines 109-111, on the constructed bus: the frame is converted and
\* written with _tcp_send, or sendall raises.
socketcand_send(message) ==
    /\ hs_pc = "ready"
    /\ Len(hs_sent) < 2 + MaxSends
    /\ \/ hs_sent' = Append(hs_sent, convert_can_message_to_ascii_message(message))
       \/ UNCHANGED hs_sent
    /\ UNCHANGED <<hs_pc, hs_channel, hs_threads, connVars>>

HsMessages == {CanMessage(float(<<"0">>), 291, <<>>, 0),
               CanMessage(float(<<"0">>), 2^11 - 1, <<10, 255>>, 2)}

HandshakeNext ==
    \/ SocketCanDaemonBus__init__
    \/ ConnectProgress /\ hs_pc = "connecting" /\ UNCHANGED hsVars
    \/ time_passes /\ UNCHANGED hsVars
    \/ init_connected
    \/ init_send_open
    \/ init_send_rawmode
    \/ init_super
    \/ \E message \in HsMessages : socketcand_send(message)

(***************************************************************************)
(* can/CAN.py: BufferedReader                                              *)
(***************************************************************************)

\* the threads that call get_message
Consumers == {"c1", "c2"}

\* BufferedReader.__init__, line 53: self.buffer = queue.Queue(0); no frame
\* was received and nobody is reading.
BufferedReaderInit ==
    /\ buffer = <<>>
    /\ bf_put = 0
    /\ bf_calls = 0
    /\ bf_pc = [c \in Consumers |-> "idle"]
    /\ bf_ret = [c \in Consumers |-> Pending]
    /\ bf_returned = <<>>

\* on_message_received, line 56: self.buffer.put(msg); the queue has no
\* maximum size (Queue(0)), so put appends under the queue's mutex and
\* returns.  Frames are numbered in the order of these calls.
BufferedReader_on_message_received ==
    /\ bf_put < MaxPuts
    /\ bf_put' = bf_put + 1
    /\ buffer' = Append(buffer, bf_put + 1)
    /\ UNCHANGED <<bf_calls, bf_pc, bf_ret, bf_returned>>

\* get_message is called on thread c and enters self.buffer.get(timeout=0.5).
get_message_call(c) ==
    /\ bf_pc[c] = "idle"
    /\ bf_calls < MaxGets
    /\ bf_calls' = bf_calls + 1
    /\ bf_pc' = [bf_pc EXCEPT ![c] = "get"]
    /\ bf_ret' = [bf_ret EXCEPT ![c] = Pending]
    /\ UNCHANGED <<buffer, bf_put, bf_returned>>

\* get_message, line 60: the queue is not empty (at the call or at a wake-up
\* before the timeout): buffer.get pops the head under the mutex and
\* get_message returns it.
get_message_item(c) ==
    /\ bf_pc[c] = "get"
    /\ buffer # <<>>
    /\ buffer' = Tail(buffer)
    /\ bf_ret' = [bf_ret EXCEPT ![c] = Return([kind |-> "frame", frame |-> Head(buffer)])]
    /\ bf_returned' = Append(bf_returned, Head(buffer))
    /\ bf_pc' = [bf_pc EXCEPT ![c] = "idle"]
    /\ UNCHANGED <<bf_put, bf_calls>>

\* An except clause that lets queue.Empty out of get_message.
OnEmptyPropagates == Raise("Empty")
\* get_message, lines 61-62: except queue.Empty: return None.
OnEmpty == Return([kind |-> "None"])

\* get_message, lines 60-62: the queue is still empty when the 0.5 s are
\* over: buffer.get raises queue.Empty, which the except clause handles.
get_message_timeout(c) ==
    /\ bf_pc[c] = "get"
    /\ buffer = <<>>
    /\ bf_ret' = [bf_ret EXCEPT ![c] = OnEmpty]
    /\ bf_pc' = [bf_pc EXCEPT ![c] = "idle"]
    /\ UNCHANGED <<buffer, bf_put, bf_calls, bf_returned>>

BufferedReaderNext ==
    \/ BufferedReader_on_message_received
    \/ \E c \in Consumers :
          \/ get_message_call(c)
          \/ get_message_item(c)
          \/ get_message_timeout(c)

(***************************************************************************)
(* pycanlib/CAN.py: Bus.add_listener while the read handle drains          *)
(***************************************************************************)

\* No listener was handed to Bus.add_listener yet.
AddListenerInit ==
    /\ al_pc = [l \in Sinks |-> "new"]
    /\ al_early = {}

\* Bus.add_listener, line 832: self._read_handle.add_listener(listener).
Bus_add_listener_append(l) ==
    /\ al_pc[l] = "new"
    /\ handle_add_listener(l)
    /\ al_pc' = [al_pc EXCEPT ![l] = "appended"]
    /\ UNCHANGED al_early

\* Bus.add_listener, line 833: listener.set_write_bus(self).
Bus_add_listener_set_write_bus(l) ==
    /\ al_pc[l] = "appended"
    /\ al_pc' = [al_pc EXCEPT ![l] = "done"]
    /\ UNCHANGED <<rdVars, al_early>>

\* A step of the driver or of a receive_callback on the shared read handle;
\* a listener that is invoked (its record of frames grows) before its
\* set_write_bus was called is remembered.
DrainStepObserved ==
    /\ \/ canlib_frame_arrives
       \/ \E t \in RxThreads :
             \/ _receive_callback(t)
             \/ receive_callback_guard(t)
             \/ receive_callback_set(t)
             \/ receive_callback_canRead(t)
             \/ receive_callback_fanout(t)
             \/ receive_callback_rearm(t)
             \/ receive_callback_clear(t)
    /\ al_early' = al_early \cup {l \in Sinks : rx_queue'[l] # rx_queue[l] /\ al_pc[l] # "done"}
    /\ UNCHANGED al_pc

AddListenerNext ==
    \/ \E l \in Sinks : Bus_add_listener_append(l)
    \/ \E l \in Sinks : Bus_add_listener_set_write_bus(l)
    \/ DrainStepObserved

(***************************************************************************)
(* pycanlib/CAN.py: _Handle.__init__ and _get_handle when the open fails   *)
(***************************************************************************)

\* canlib.FLAGS_MASK: the canOPEN_* flags or-ed together.
FLAGS_MASK == 1016

RECURSIVE BitAnd(_, _)
\* a & b for non-negative integers
BitAnd(a, b) ==
    IF a = 0 \/ b = 0 THEN 0
    ELSE (a % 2) * (b % 2) + 2 * BitAnd(a \div 2, b \div 2)

\* the channel arguments: one below and one above the available range too
ChannelArgs == (0 - 1)..NumChannels
\* the flags arguments: accepted ones, a bit outside the mask inside 16
\* bits, and bit 16
FlagArgs == FlagValues \cup {1, 65536}
\* what canOpenChannel does when it is called
DriverResults == {"canOK", "canERR_NOTFOUND", "canERR_NOMEM"}

NoError == [raised |-> "none", parameter |-> "none", open_called |-> FALSE]

OpenInit ==
    /\ failed_inits = 0
    /\ init_error = [stage |-> "none", channel |-> 0, flags |-> 0, driver |-> "canOK",
                     error |-> NoError]

\* The flags test of line 353 without the 16-bit window.
FlagsTestAllBits(flags) == BitAnd(flags, FLAGS_MASK) # flags
\* _Handle.__init__, line 353: flags & (0xFFFF - canlib.FLAGS_MASK) != 0.
FlagsTest(flags) == BitAnd(flags, 65535 - FLAGS_MASK) # 0

\* _Handle.__init__, lines 345-364, up to the handle being open: the
\* exception it raises, if any, and whether canOpenChannel was called;
\* `driver` is what canOpenChannel does if it is called.
Handle__init__(channel, flags, driver) ==
    IF channel \notin 0..(NumChannels - 1)
    THEN [raised |-> "InvalidBusParameterError", parameter |-> "channel",
          open_called |-> FALSE]
    ELSE IF FlagsTest(flags)
    THEN [raised |-> "InvalidBusParameterError", parameter |-> "flags",
          open_called |-> FALSE]
    ELSE IF driver = "canERR_NOTFOUND"
    THEN [raised |-> "InvalidBusParameterError", parameter |-> "flags",
          open_called |-> TRUE]
    ELSE IF driver # "canOK"
    THEN [raised |-> "CANLIBError", parameter |-> driver, open_called |-> TRUE]
    ELSE NoError

\* Bus.__init__(channel, flags, ...) when one of its two _get_handle calls
\* (lines 777 and 782) raises: _get_handle leaves at line 581, before the
\* registry entry and before kvSetNotifyCallback, and Bus.__init__ ends with
\* the exception.  When the read handle was obtained before the write handle
\* failed, the first _get_handle call has had its effects.
Bus__init__raises(channel, flags, driver_r, driver_w) ==
    LET fresh_r == canlib_opened
        ropen == GetHandleOpens(READ_HANDLE_REGISTRY, channel, flags)
        rerr == IF ropen THEN Handle__init__(channel, flags, driver_r) ELSE NoError
        rreg == GetHandleRegistry(READ_HANDLE_REGISTRY, channel, flags, fresh_r)
        rh == GetHandleKey(READ_HANDLE_REGISTRY, channel, flags, fresh_r)
        chan1 == IF ropen THEN canlib_chan @@ (fresh_r :> NewChannel)
                 ELSE canlib_chan
        chan2 == [chan1 EXCEPT ![rh].notify = NotifyFor(rreg, rreg)]
        wopen == GetHandleOpens(WRITE_HANDLE_REGISTRY, channel, flags)
        werr == IF wopen THEN Handle__init__(channel, flags, driver_w) ELSE NoError
    IN  /\ failed_inits < MaxFailedInits
        /\ Len(buses) < MaxBuses
        /\ \/ /\ rerr.raised # "none"
              /\ init_error' = [stage |-> "read", channel |-> channel, flags |-> flags,
                                driver |-> IF rerr.open_called THEN driver_r ELSE "canOK",
                                error |-> rerr]
              /\ UNCHANGED regVars
           \/ /\ rerr.raised = "none"
              /\ werr.raised # "none"
              /\ init_error' = [stage |-> "write", channel |-> channel, flags |-> flags,
                                driver |-> driver_w, error |-> werr]
              /\ READ_HANDLE_REGISTRY' = rreg
              /\ canlib_chan' = chan2
              /\ canlib_opened' = canlib_opened + (IF ropen THEN 1 ELSE 0)
              /\ UNCHANGED <<WRITE_HANDLE_REGISTRY, buses>>
        /\ failed_inits' = failed_inits + 1

\* Bus objects are constructed with any arguments on any driver.
OpenNext ==
    \/ RegNext /\ UNCHANGED openVars
    \/ \E channel \in ChannelArgs, flags \in FlagArgs, driver_r, driver_w \in DriverResults :
          Bus__init__raises(channel, flags, driver_r, driver_w)

(***************************************************************************)
(* pycanlib/CAN.py: _Handle.write as its caller sees it                    *)
(***************************************************************************)

WriteCallInit == tc_busy_at_call = [t \in Writers |-> FALSE]

\* Something is going on on the write handle apart from thread t: the
\* 'writing' guard is set, or another thread is inside write or
\* transmit_callback.
TransmitInProgress(t) ==
    writing \/ \E u \in TxThreads \ {t} : tc_pc[u] # "idle"

\* A step of the write handle; at the entry of a write call (line 401) the
\* caller's view of the handle is recorded.
WriteStepObserved ==
    /\ WriteNext
    /\ tc_busy_at_call' =
          [t \in Writers |->
              IF tc_pc[t] = "idle" /\ tc_pc'[t] = "put"
              THEN TransmitInProgress(t)
              ELSE tc_busy_at_call[t]]

(***************************************************************************)
(* pycanlib/CAN.py: callbacks of a handle that end with an exception       *)
(***************************************************************************)

\* receive_callback, lines 427-430: canRead returned a frame and
\* Message(...) raises InvalidMessageParameterError on it (an identifier
\* above 0x7FF, for one).  No statement of receive_callback catches it: the
\* callback ends there, the driver thread goes on, and line 443 is not
\* reached.
receive_callback_Message_raises(t) ==
    /\ rc_pc[t] = "read"
    /\ canlib_rx # <<>>
    /\ canlib_rx' = Tail(canlib_rx)
    /\ rc_msg' = [rc_msg EXCEPT ![t] = Head(canlib_rx)]
    /\ rc_pc' = [rc_pc EXCEPT ![t] = "idle"]
    /\ UNCHANGED <<reading, receive_callback_enabled, handle_listeners, rx_queue, rc_idx>>
    /\ UNCHANGED <<rx_notify, arrived>>

\* receive_callback, lines 431-432: _listener.on_message_received(_rx_msg)
\* raises; the callback ends there.
receive_callback_listener_raises(t) ==
    /\ rc_pc[t] = "fanout"
    /\ rc_idx[t] <= Len(handle_listeners)
    /\ rc_pc' = [rc_pc EXCEPT ![t] = "idle"]
    /\ UNCHANGED <<reading, receive_callback_enabled, handle_listeners, rx_queue,
                   rc_msg, rc_idx>>
    /\ UNCHANGED <<canlib_rx, rx_notify, arrived>>

\* A step of a receive_callback invocation, whichever way it goes.
ReadCallbackStep ==
    \E t \in RxThreads :
        \/ _receive_callback(t)
        \/ receive_callback_guard(t)
        \/ receive_callback_set(t)
        \/ receive_callback_canRead(t)
        \/ receive_callback_fanout(t)
        \/ receive_callback_rearm(t)
        \/ receive_callback_clear(t)
        \/ receive_callback_Message_raises(t)
        \/ receive_callback_listener_raises(t)

\* The read handle with driver data and listeners that can make the
\* callback raise.
ReadFaultNext ==
    \/ \E b \in Sinks : handle_add_listener(b)
    \/ canlib_frame_arrives
    \/ ReadCallbackStep

\* transmit_callback, lines 395-396: canlib.canWrite(...) raises
\* CANLIBError; the frame taken from the queue is not sent, the exception
\* leaves transmit_callback (and write, when write made the call), and line
\* 397 is not reached.
transmit_callback_canWrite_raises(t) ==
    /\ tc_pc[t] = "canWrite"
    /\ tc_pc' = [tc_pc EXCEPT ![t] = "idle"]
    /\ UNCHANGED <<writing, transmit_callback_enabled, tx_queue, tc_old_size,
                   tc_msg, tc_to_send>>
    /\ UNCHANGED <<canlib_written, tx_notify, enqueued>>

\* The write handle on a driver whose canWrite can fail.
WriteFaultNext ==
    \/ WriteNext
    \/ \E t \in TxThreads : transmit_callback_canWrite_raises(t)

(***************************************************************************)
(* can/bus.py: the reader thread seen after shutdown()                     *)
(***************************************************************************)

AfterShutdownInit == fanned_after_shutdown = {}

\* A step of the bus; a listener callback made by rx_thread (line 111) after
\* a shutdown() call has returned is recorded with the frame it was given.
BusStepObserved ==
    /\ BusNext
    /\ fanned_after_shutdown' =
          IF shutdown_calls > 0 /\ rx_pc = "fanout" /\ received' # received
          THEN fanned_after_shutdown \cup {rx_msg}
          ELSE fanned_after_shutdown

(***************************************************************************)
(* pycanlib/CAN.py: Bus.write                                              *)
(***************************************************************************)

BusWriteInit == bw_silent_seen = FALSE

\* A test that takes no Bus for silent.
IsSilentNever(driver_mode) == FALSE
\* Bus.write, line 837: `if self.driver_mode != canlib.canDRIVER_SILENT`
\* fails; self.driver_mode is the constructor's argument (line 818).
IsSilent(driver_mode) == driver_mode = "canDRIVER_SILENT"

\* Bus.write(msg) on thread t, on a Bus of the given driver mode that has
\* this write handle: lines 835-841.  Unless the Bus is silent it calls
\* self._write_handle.write(msg), which begins at line 401; on a silent Bus
\* it only logs and returns.
Bus_write(t, driver_mode) ==
    /\ IF IsSilent(driver_mode)
       THEN tc_pc[t] = "idle" /\ UNCHANGED wrVars
       ELSE handle_write_qsize(t)
    /\ bw_silent_seen' = (bw_silent_seen \/ driver_mode = "canDRIVER_SILENT")

\* Buses of every driver mode that share one write handle are written to
\* while the handle transmits.
BusWriteNext ==
    \/ \E t \in Writers, driver_mode \in DriverModes : Bus_write(t, driver_mode)
    \/ WriteProgress /\ UNCHANGED bw_silent_seen

(***************************************************************************)
(* Specifications                                                          *)
(***************************************************************************)

\* The two buses' threads, registries and handles after construction.
CoreInit ==
    /\ BusInit /\ RegInit /\ ReadInit /\ WriteInit /\ CleanupInit /\ BusReadInit
    /\ BufferedReaderInit /\ AddListenerInit /\ OpenInit /\ WriteCallInit
    /\ AfterShutdownInit /\ BusWriteInit

\* Nothing is going on in the daemon backend.
NetIdle == RecvIdle /\ ConnectIdle /\ HandshakeIdle

Init == CoreInit /\ MessageIdle /\ CodecIdle /\ NetIdle

SpecBus == Init /\ [][BusNext /\ UNCHANGED <<regVars, rdVars, wrVars, extVars>>]_vars

SpecRegistry == Init /\ [][RegNext /\ UNCHANGED <<busVars, rdVars, wrVars, extVars>>]_vars

SpecRead == Init /\ [][ReadNext /\ UNCHANGED <<busVars, regVars, wrVars, extVars>>]_vars

SpecWrite == Init /\ [][WriteNext /\ UNCHANGED <<busVars, regVars, rdVars, extVars>>]_vars

\* Buses of one read handle are read while the driver delivers frames.
SpecBusRead ==
    Init /\ [][BusReadNext /\ UNCHANGED <<busVars, regVars, wrVars, clVars, restVars,
                                       listenerVars>>]_vars

\* Constructor calls over the argument sets.
InitMessage == CoreInit /\ MessageInit /\ CodecIdle /\ NetIdle

SpecMessage ==
    InitMessage
      /\ [][MessageNext /\ UNCHANGED <<busVars, regVars, rdVars, wrVars, clVars,
                                          brVars, codecVars, recvVars, connVars,
                                          hsVars, listenerVars>>]_vars

InitCodec == CoreInit /\ MessageIdle /\ CodecInit /\ NetIdle

\* Frames over the id and payload sets go through the encoder, the daemon
\* and the decoder.
SpecCodec ==
    InitCodec
      /\ [][CodecNext /\ UNCHANGED <<busVars, regVars, rdVars, wrVars, clVars, brVars,
                                      msgVars, recvVars, connVars, hsVars,
                                      listenerVars>>]_vars

\* _recv_internal is called while the daemon sends lines.
SpecRecv ==
    Init /\ [][RecvNext /\ UNCHANGED <<busVars, regVars, rdVars, wrVars, clVars, brVars,
                                        msgVars, codecVars, connVars, hsVars,
                                        listenerVars>>]_vars

\* The variables outside the daemon backend's connection.
notNetVars == <<busVars, regVars, rdVars, wrVars, clVars, brVars, msgVars, codecVars,
                recvVars, listenerVars>>

\* connect_to_server is called at some time and runs while time passes.
SpecConnect == Init /\ [][ConnectNext /\ UNCHANGED <<notNetVars, hsVars>>]_vars

\* The calling thread keeps running, every connect attempt comes back, and
\* time passes.
FairSpecConnect ==
    /\ SpecConnect
    /\ WF_vars(ConnectProgress /\ UNCHANGED <<notNetVars, hsVars>>)
    /\ WF_vars(time_passes /\ UNCHANGED <<notNetVars, hsVars>>)

InitHandshake ==
    CoreInit /\ MessageIdle /\ CodecIdle /\ RecvIdle /\ ConnectIdle /\ HandshakeInit

\* A SocketCanDaemonBus is constructed and then used to send frames.
SpecHandshake == InitHandshake /\ [][HandshakeNext /\ UNCHANGED notNetVars]_vars

\* The process exits (_cleanup runs) while the driver still receives frames
\* on the read handle; nothing is being written.
CleanupRun ==
    \/ ReadNext /\ UNCHANGED <<wrVars, clVars, brVars, restVars, listenerVars>>
    \/ CleanupNext /\ UNCHANGED <<brVars, restVars, listenerVars>>

SpecCleanup == Init /\ [][CleanupRun /\ UNCHANGED <<busVars, regVars>>]_vars

\* Every call in progress on the write handle keeps running, and the driver
\* delivers every transmit-complete notification; callers of Bus.write are
\* under no obligation to call again.
FairSpecWrite ==
    SpecWrite /\ WF_vars(WriteProgress /\ UNCHANGED <<busVars, regVars, rdVars, extVars>>)

\* Both threads are daemon threads the interpreter keeps scheduling, the
\* backend receive call returns and every listener callback returns or
\* raises: every thread step that stays possible is eventually taken.  The callers of write, shutdown and the registration are
\* under no obligation.
FairSpecBus ==
    /\ SpecBus
    /\ WF_vars(tx_thread /\ UNCHANGED <<regVars, rdVars, wrVars, extVars>>)
    /\ WF_vars(RxStep /\ UNCHANGED <<regVars, rdVars, wrVars, extVars>>)

\* A BufferedReader receives frames from a bus thread while two threads call
\* get_message.
SpecBufferedReader ==
    Init /\ [][BufferedReaderNext /\ UNCHANGED <<busVars, regVars, rdVars, wrVars, clVars,
                                                 brVars, restVars, alVars, openVars,
                                                 callVars, lateVars>>]_vars

\* Listeners are registered through Bus.add_listener while the driver
\* delivers frames on the read handle.
SpecAddListener ==
    Init /\ [][AddListenerNext /\ UNCHANGED <<busVars, regVars, wrVars, clVars, brVars,
                                              restVars, bufVars, openVars, callVars,
                                              lateVars>>]_vars

\* Bus objects are constructed with valid and invalid arguments while the
\* driver's open may fail.
SpecOpen ==
    Init /\ [][OpenNext /\ UNCHANGED <<busVars, rdVars, wrVars, clVars, brVars, restVars,
                                       bufVars, alVars, callVars, lateVars>>]_vars

\* Threads call Bus.write while the driver signals transmit-complete; what
\* each caller found at its call is recorded.
SpecWriteCalls ==
    Init /\ [][WriteStepObserved /\ UNCHANGED <<busVars, regVars, rdVars, clVars, brVars,
                                                restVars, bufVars, alVars, openVars,
                                                lateVars>>]_vars

\* The bus runs and is shut down; what the reader delivers afterwards is
\* recorded.
SpecBusAfterShutdown ==
    Init /\ [][BusStepObserved /\ UNCHANGED <<regVars, rdVars, wrVars, clVars, brVars,
                                              restVars, bufVars, alVars, openVars, callVars,
                                              bwVars>>]_vars

\* Threads call write on normal and on silent Bus objects of one write
\* handle.
SpecBusWrite ==
    Init /\ [][BusWriteNext /\ UNCHANGED <<busVars, regVars, rdVars, clVars, brVars,
                                           restVars, bufVars, alVars, openVars, callVars,
                                           shutVars>>]_vars

\* Threads call Bus.write on a driver whose canWrite can fail.
SpecWriteFaults ==
    Init /\ [][WriteFaultNext /\ UNCHANGED <<busVars, regVars, rdVars, extVars>>]_vars

\* The process exits (_cleanup runs) while the driver still receives frames
\* that Message may reject, and listeners may raise.
CleanupFaultRun ==
    \/ ReadFaultNext /\ UNCHANGED <<wrVars, clVars, brVars, restVars, listenerVars>>
    \/ CleanupNext /\ UNCHANGED <<brVars, restVars, listenerVars>>

SpecCleanupFaults == Init /\ [][CleanupFaultRun /\ UNCHANGED <<busVars, regVars>>]_vars

\* The thread running _cleanup keeps running, and every callback invocation
\* the driver has started or has pending runs to its end.
FairSpecCleanupFaults ==
    /\ SpecCleanupFaults
    /\ WF_vars(CleanupNext /\ UNCHANGED <<busVars, regVars, brVars, restVars, listenerVars>>)
    /\ WF_vars(ReadCallbackStep /\ UNCHANGED <<busVars, regVars, wrVars, clVars, brVars,
                                               restVars, listenerVars>>)

(***************************************************************************)
(* Claims about BusABC                                                     *)
(***************************************************************************)

RxTerminated == rx_pc \in {"done", "raised"}
InPutLog(m) == \E i \in 1..Len(put_log) : put_log[i] = m

\* C1: while the bus is running, every frame accepted by write() is
\* eventually handed to _put_message by the background writer.
C1_AcceptedEventuallyPut ==
    \A m \in 1..MaxWrites :
        (m <= accepted) ~> (InPutLog(m) \/ ~_threads_running)

\* C1, the case: a frame was accepted while the bus was running.
C1_Witness == accepted > 0 /\ _threads_running /\ tx_pc = "done"

\* What a listener at position k of the list has been called with once the
\* frames in got have been fanned out up to the loop's position.
DueAt(k) ==
    IF rx_pc = "fanout" /\ k >= rx_idx
    THEN SubSeq(got, 1, Len(got) - 1)
    ELSE got

\* C2: every frame the backend returned is delivered, in backend order and
\* exactly once, to every listener registered before the first frame.
C2_EveryFrameToEveryListener ==
    \A k \in 1..Len(listeners) :
        listeners[k] \in reg_before_first => received[listeners[k]] = DueAt(k)

\* C2, the case: two listeners registered before the first frame, and the
\* backend has returned every frame.
C2_Witness ==
    /\ Len(listeners) = NumListeners
    /\ reg_before_first = Listeners
    /\ Len(got) = MaxFrames
    /\ rx_pc = "loop"

\* C3: a listener added after shutdown() was called receives no frame.
C3_LateListenerReceivesNothing ==
    \A l \in reg_after_shutdown : received[l] = <<>>

\* C3, the case: a listener was added after shutdown() and the reader has
\* ended.
C3_Witness == reg_after_shutdown # {} /\ RxTerminated

\* C4: after shutdown() is called the reader and the writer both eventually
\* terminate, and a further shutdown() call is never blocked.
C4_ThreadsTerminate ==
    /\ (shutdown_calls > 0) ~> (RxTerminated /\ tx_pc = "done")
    /\ [](shutdown_calls < MaxShutdowns => ENABLED shutdown)

\* C4, the case: shutdown() was called in the middle of a fan-out and both
\* threads have ended, the reader by leaving its loop.
C4_Witness == shutdown_in_fanout /\ rx_pc = "done" /\ tx_pc = "done"

\* C5: the running flag, once cleared, is never set again by any operation,
\* and a second or later shutdown() changes nothing of the bus.
C5_OneWayLifecycle ==
    [][/\ (~_threads_running => ~_threads_running')
       /\ (shutdown_calls >= 1 /\ shutdown_calls' # shutdown_calls
              => UNCHANGED busProgram)]_vars

\* C5, the case: shutdown() has been called twice.
C5_Witness == shutdown_calls >= 2 /\ ~_threads_running

(***************************************************************************)
(* Claims about the handle registries                                      *)
(***************************************************************************)

OnePerPair(registry) ==
    \A k1, k2 \in DOMAIN registry :
        (registry[k1].channel = registry[k2].channel
           /\ registry[k1].flags = registry[k2].flags) => k1 = k2

\* C6: each registry holds at most one handle per (channel, flags); a
\* request for a pair already present opens no new hardware channel, and two
\* Bus objects with the same pair have the same read and write handles,
\* which are the registries' handles for that pair.
C6_OneHandlePerPair ==
    /\ OnePerPair(READ_HANDLE_REGISTRY)
    /\ OnePerPair(WRITE_HANDLE_REGISTRY)
    /\ canlib_opened = Cardinality(DOMAIN READ_HANDLE_REGISTRY)
                         + Cardinality(DOMAIN WRITE_HANDLE_REGISTRY)
    /\ \A i \in 1..Len(buses) :
          /\ buses[i]._read_handle \in DOMAIN READ_HANDLE_REGISTRY
          /\ buses[i]._write_handle \in DOMAIN WRITE_HANDLE_REGISTRY
          /\ READ_HANDLE_REGISTRY[buses[i]._read_handle].channel = buses[i].channel
          /\ READ_HANDLE_REGISTRY[buses[i]._read_handle].flags = buses[i].flags
          /\ WRITE_HANDLE_REGISTRY[buses[i]._write_handle].channel = buses[i].channel
          /\ WRITE_HANDLE_REGISTRY[buses[i]._write_handle].flags = buses[i].flags
    /\ \A i, j \in 1..Len(buses) :
          (buses[i].channel = buses[j].channel /\ buses[i].flags = buses[j].flags)
            => /\ buses[i]._read_handle = buses[j]._read_handle
               /\ buses[i]._write_handle = buses[j]._write_handle

\* C6, the case: two Bus objects were created with the same (channel, flags)
\* and a third one with another pair.
C6_Witness ==
    /\ Len(buses) >= 3
    /\ buses[1].channel = buses[2].channel /\ buses[1].flags = buses[2].flags
    /\ buses[3].flags # buses[1].flags

(***************************************************************************)
(* Claims about the receive and transmit paths of a handle                 *)
(***************************************************************************)

\* Thread t is past the 'reading' guard, inside the canRead/fan-out loop.
InDrain(t) == rc_pc[t] \in {"read", "fanout", "rearm"}

\* C7: at most one receive drain loop is active on the handle at any time.
C7_OneDrainAtATime ==
    Cardinality({t \in RxThreads : InDrain(t)}) <= 1

\* C7, the case: a notification arrived while a drain was active and was
\* turned away by the guard.
C7_Witness ==
    \E t, u \in RxThreads :
        /\ InDrain(t)
        /\ rc_pc[u] = "guard"
        /\ reading

\* Thread t has dequeued a message and is in its canWrite call.
InTransmit(t) == tc_pc[t] = "canWrite"

\* C8: at most one canWrite call is in progress on the handle at any time.
C8_OneTransmitAtATime ==
    Cardinality({t \in TxThreads : InTransmit(t)}) <= 1

\* C8, the case: _Handle.write's kick and the transmit-complete
\* notification have both dequeued a message and are both in canWrite.
C8_Witness ==
    \E t \in Writers : InTransmit(t) /\ InTransmit(TxNotifier)

Written(m) == \E i \in 1..Len(canlib_written) : canlib_written[i] = m
Enqueued(m) == \E i \in 1..Len(enqueued) : enqueued[i] = m

\* C9: every frame enqueued by _Handle.write is eventually passed to
\* canWrite.
C9_EnqueuedEventuallyWritten ==
    \A m \in 1..MaxTx : Enqueued(m) ~> Written(m)

\* C9, the case: a write found the queue empty but its kick was turned away
\* by the guard, so its frame stayed queued.
C9_Witness ==
    \E t \in Writers :
        /\ tc_pc[t] = "idle"
        /\ tc_old_size[t] = 0
        /\ tc_msg[t] # 0
        /\ \E i \in 1..Len(tx_queue) : tx_queue[i] = tc_msg[t]

\* C10: the frames passed to canWrite are, in order, the first frames
\* enqueued: no frame overtakes an earlier one and none is written twice.
C10_WrittenInEnqueueOrder ==
    /\ Len(canlib_written) <= Len(enqueued)
    /\ \A i \in 1..Len(canlib_written) : canlib_written[i] = enqueued[i]

\* C10, the case: several frames were enqueued by concurrent writers and all
\* of them were written.
C10_Witness ==
    /\ Len(enqueued) = MaxTx
    /\ Len(canlib_written) = MaxTx
    /\ \E i \in 1..Len(enqueued) : enqueued[i] # i

(***************************************************************************)
(* Claims about _cleanup                                                   *)
(***************************************************************************)

\* Thread t performs a canRead call in this step.
CanReadStep(t) == rc_pc[t] = "read" /\ rc_pc'[t] # "read"
\* Thread t performs a canWrite call in this step.
CanWriteStep(t) == tc_pc[t] = "canWrite" /\ tc_pc'[t] # "canWrite"

\* C11: once _cleanup has disabled a handle's callbacks no notification
\* starts a drain or a hardware write on it, a handle is flushed only when no
\* drain or transmit is in progress on it, and no callback accesses the
\* hardware of a flushed handle.
C11_DisableWaitFlush ==
    [][/\ \A t \in RxThreads :
            (receiveCallbackEnabled = "False" /\ rc_pc[t] = "guard")
              => rc_pc'[t] # "set"
       /\ \A t \in TxThreads :
            (transmitCallbackEnabled = "False" /\ tc_pc[t] = "guard")
              => tc_pc'[t] # "set"
       /\ (~rx_flushed /\ rx_flushed')
            => \A t \in RxThreads : rc_pc[t] \in {"idle", "guard"}
       /\ (~tx_flushed /\ tx_flushed')
            => \A t \in TxThreads : tc_pc[t] \in {"idle", "put", "guard"}
       /\ rx_flushed => \A t \in RxThreads : ~CanReadStep(t)
       /\ tx_flushed => \A t \in TxThreads : ~CanWriteStep(t)]_vars

\* C11, the case: _cleanup has run to its end while frames were arriving.
C11_Witness == cl_pc = "done" /\ arrived > 0 /\ rx_flushed /\ tx_flushed

(***************************************************************************)
(* Claims about the per-bus receive queue                                  *)
(***************************************************************************)

\* Everything that was ever appended to the rx_queue of bus b, in order.
Delivered(b) == read_log[b] \o rx_queue[b]

\* Frame k has been drained and its fan-out is over.
FannedOut(k) ==
    /\ k <= arrived
    /\ \A i \in 1..Len(canlib_rx) : canlib_rx[i] # k
    /\ \A t \in RxThreads : ~(rc_pc[t] = "fanout" /\ rc_msg[t] = k)

\* Frames are numbered in the order the driver hands them out, so drain
\* order is numeric order.
InDrainOrder(q) == \A i, j \in 1..Len(q) : i < j => q[i] < q[j]

\* Bus.read on bus b in this step: the oldest frame of b's queue is returned
\* and removed, or None is returned; no other bus's queue changes.
ReadStepOk(b) ==
    (read_log'[b] # read_log[b] \/ read_none'[b] # read_none[b])
      => /\ \A o \in Sinks \ {b} : rx_queue'[o] = rx_queue[o]
         /\ IF rx_queue[b] = <<>>
            THEN /\ rx_queue'[b] = <<>>
                 /\ read_log'[b] = read_log[b]
                 /\ read_none'[b] = read_none[b] + 1
            ELSE /\ rx_queue'[b] = Tail(rx_queue[b])
                 /\ read_log'[b] = Append(read_log[b], Head(rx_queue[b]))
                 /\ read_none'[b] = read_none[b]

\* C12: every frame drained from the read handle is appended exactly once,
\* in drain order, to the rx_queue of every Bus registered on the handle, and
\* Bus.read takes the oldest frame of its own queue only, returning None on
\* an empty queue.
C12_PerBusQueue ==
    [][/\ \A b \in Sinks :
            /\ InDrainOrder(Delivered(b))'
            /\ \A k \in 1..MaxRxFrames :
                 (FannedOut(k)' /\ b \in drain_regs'[k])
                   => Cardinality({i \in 1..Len(Delivered(b)') : Delivered(b)'[i] = k}) = 1
            /\ ReadStepOk(b)]_vars

\* C12, the case: two buses share the handle, both were handed two frames,
\* and one of them has read a frame while the other has not.
C12_Witness ==
    /\ Len(handle_listeners) = 2
    /\ \E b, o \in Sinks :
         /\ b # o
         /\ Len(read_log[b]) = 1 /\ Len(rx_queue[b]) = 1
         /\ Len(rx_queue[o]) = 2
         /\ read_none[o] = 1

(***************************************************************************)
(* Claims about Message construction                                       *)
(***************************************************************************)

\* The payload a request asks for: None stands for the empty payload.
RequestedPayload == IF msg_in.payload.none THEN <<>> ELSE msg_in.payload.items

\* The conditions the constructor's contract puts on each field.
TimestampValid == msg_in.timestamp.t \in {"float", "int"} /\ msg_in.timestamp.v >= 0
DeviceIdValid == msg_in.device_id.t = "int" /\ msg_in.device_id.v \in 0..(2^11 - 1)
PayloadValid ==
    /\ Len(RequestedPayload) <= 8
    /\ \A i \in 1..Len(RequestedPayload) :
          RequestedPayload[i].t = "int" /\ RequestedPayload[i].v \in 0..255
DlcValid == msg_in.dlc.t = "int" /\ msg_in.dlc.v \in 0..8
FlagsValid == msg_in.flags.t = "int" /\ msg_in.flags.v \in 0..(2^16 - 1)

\* The first field that fails, in the order timestamp, device_id, payload,
\* dlc, flags, with the value passed for it.
FirstOffender ==
    IF ~TimestampValid THEN <<"timestamp", msg_in.timestamp>>
    ELSE IF ~DeviceIdValid THEN <<"device_id", msg_in.device_id>>
    ELSE IF ~PayloadValid THEN <<"payload", RequestedPayload>>
    ELSE IF ~DlcValid THEN <<"dlc", msg_in.dlc>>
    ELSE <<"flags", msg_in.flags>>

C14_PayloadLenIsDlc ==
    msg_out.kind = "Message" => Len(msg_out.payload) = msg_out.dlc.v

\* C14, the case: the call asked for a dlc that differs from the length of
\* its payload, and has returned or raised.
C14_Witness ==
    /\ msg_out.kind # "pending"
    /\ DlcValid /\ PayloadValid
    /\ msg_in.dlc.v # Len(RequestedPayload)

\* The request marks the frame as extended.
MarkedExtended == (msg_in.flags.v \div canMSG_EXT) % 2 = 1

\* The identifiers that fit the width the request declares.
DeclaredIdRange == IF MarkedExtended THEN 0..(2^29 - 1) ELSE 0..(2^11 - 1)

\* C15: with every other field valid, construction accepts an identifier
\* exactly when it fits the declared width: 29 bits for a frame marked
\* extended, 11 bits for a standard one.
C15_IdFitsDeclaredWidth ==
    (/\ msg_out.kind # "pending"
     /\ msg_in.device_id.t = "int"
     /\ TimestampValid /\ PayloadValid /\ DlcValid /\ FlagsValid)
      => (msg_out.kind = "Message" <=> msg_in.device_id.v \in DeclaredIdRange)

\* C15, the case: a call for a frame marked extended, with an identifier
\* that needs more than 11 bits and fits 29, has returned or raised.
C15_Witness ==
    /\ msg_out.kind # "pending"
    /\ TimestampValid /\ PayloadValid /\ DlcValid /\ FlagsValid
    /\ MarkedExtended
    /\ msg_in.device_id.t = "int"
    /\ msg_in.device_id.v \in 0..(2^29 - 1)
    /\ msg_in.device_id.v \notin 0..(2^11 - 1)

(***************************************************************************)
(* Claims about the frame <-> ASCII conversions                            *)
(***************************************************************************)

\* C16: a frame with dlc = len(data) that is encoded, and whose
\* "< frame ID TIMESTAMP DATA >" line is decoded, comes back as a message
\* with the same arbitration id and the same payload bytes.
C16_RoundTrip ==
    (codec_pc = "decoded" /\ codec_msg.dlc = Len(codec_msg.data))
      => /\ codec_back.kind = "Message"
         /\ codec_back.arbitration_id = codec_msg.arbitration_id
         /\ codec_back.data = codec_msg.data

\* C16, the case: a frame whose payload has a byte below 0x10 and one above
\* has made the round trip.
C16_Witness ==
    /\ codec_pc = "decoded"
    /\ codec_msg.dlc = Len(codec_msg.data)
    /\ codec_msg.data = <<10, 255>>
    /\ codec_msg.arbitration_id = 2^29 - 1

(***************************************************************************)
(* Claims about receiving from the daemon                                  *)
(***************************************************************************)

\* The line has the "< frame " ... " >" envelope around some content.
Enveloped(line) ==
    /\ startswith(line, FramePrefix)
    /\ endswith(line, LineSuffix)
    /\ Len(line) >= Len(FramePrefix) + Len(LineSuffix)

\* The tokens between the envelope's ends.
ContentTokens(line) ==
    split(SubSeq(line, Len(FramePrefix) + 1, Len(line) - Len(LineSuffix)), 0 - 1)

\* A malformed line: outside the envelope, or inside it with the id, the
\* timestamp or the data token missing, an id or data token that is not
\* hex, a timestamp that is no number, or an odd number of hex digits.
Malformed(line) ==
    \/ ~Enveloped(line)
    \/ Len(ContentTokens(line)) < 3
    \/ LET id == ContentTokens(line)[1]
           timestamp == ContentTokens(line)[2]
           data == ContentTokens(line)[3]
       IN  \/ id = <<>>
           \/ \E i \in 1..Len(id) : ~IsHexDigit(id[i])
           \/ ~FloatAccepts(timestamp)
           \/ \E i \in 1..Len(data) : ~IsHexDigit(data[i])
           \/ Len(data) % 2 = 1

\* This step is the socket read and decoding of _recv_internal.
RecvStep == ri_pc = "recv" /\ ri_pc' = "idle" /\ sock_open

\* C17: when the line read is malformed the call returns None without
\* raising, only that line is consumed, and the socket stays open for the
\* next receive.
C17_MalformedIsNoFrame ==
    [][(RecvStep /\ Malformed(Head(inbound)))
         => /\ ri_ret' = Return([kind |-> "None"])
            /\ inbound' = Tail(inbound)
            /\ sock_open']_vars

\* C17, the case: a receive has read a line that is inside the envelope and
\* has no data token.
C17_Witness ==
    /\ ri_pc = "idle" /\ ri_reads = 1
    /\ lines_sent = 1 /\ inbound = <<>>
    /\ ri_ret = Raise("IndexError")

\* This step is what the call does once select has come back.
BranchStep == ri_pc = "selected" /\ ri_pc' # "selected"

\* C18: when select reports the socket not readable the call returns None
\* without a socket read and without raising; when select fails with a
\* socket error the call raises CanError and does not call select again.
C18_NotReadableOrError ==
    [][/\ (BranchStep /\ ri_select = "timeout")
            => /\ ri_pc' = "idle"
               /\ ri_ret' = Return([kind |-> "None"])
               /\ ri_reads' = 0
               /\ inbound' = inbound
       /\ (BranchStep /\ ri_select = "error")
            => /\ ri_pc' = "idle"
               /\ ri_ret' = Raise("CanError")
               /\ ri_selects' = 1
               /\ ri_reads' = 0
               /\ inbound' = inbound]_vars

\* C18, the case: a call has ended in CanError after a failed select while
\* a line was waiting, and an earlier call had timed out.
C18_Witness ==
    /\ ri_pc = "idle"
    /\ ri_calls = 2
    /\ ri_select = "error"
    /\ ri_ret = Raise("CanError")
    /\ inbound # <<>>

(***************************************************************************)
(* Claims about the connection to the daemon                               *)
(***************************************************************************)

ConnectEnded == cs_pc \in {"returned", "raised"}

\* C19: connect_to_server always ends, either returning right after a
\* connect attempt that succeeded or raising TimeoutError after attempts
\* that all failed; while the time read is below the 10 second budget it
\* retries, it never returns without a connection, and it never raises
\* before the budget has elapsed.
C19_ConnectTerminates ==
    /\ (cs_pc = "loop") ~> ConnectEnded
    /\ [](cs_pc = "returned" => cs_connected)
    /\ [](cs_pc = "raised" =>
             /\ ~cs_connected
             /\ cs_attempts > 0
             /\ clock >= cs_end_time)
    /\ [][/\ (cs_pc # "returned" /\ cs_pc' = "returned")
                => (cs_pc = "connect" /\ ~cs_connected /\ cs_connected')
          /\ (cs_pc = "loop" /\ cs_pc' # "loop" /\ cs_now < cs_end_time)
                => (cs_pc' = "connect")
          /\ (cs_end_time' # cs_end_time)
                => (cs_pc = "new" /\ cs_end_time' = clock + timeout_ms)]_vars

\* C19, the case: TimeoutError was raised after three or more failed
\* attempts.
C19_Witness == cs_pc = "raised" /\ cs_attempts = MaxAttempts

(***************************************************************************)
(* Claims about the handshake                                              *)
(***************************************************************************)

\* C20: what was written to the socket starts with "< open <channel> >" and
\* then "< rawmode >", each once, and everything after them is a
\* "< send ... >"; nothing is written before the connection succeeded, the
\* background threads start only after both, and when the connection
\* failed nothing is written and no thread is started.
C20_OpenThenRawmode ==
    /\ Len(hs_sent) >= 1 => hs_sent[1] = OpenLine(hs_channel)
    /\ Len(hs_sent) >= 2 => hs_sent[2] = RawmodeLine
    /\ \A i \in 3..Len(hs_sent) :
          /\ startswith(hs_sent[i], SendPrefix)
          /\ hs_sent[i] # OpenLine(hs_channel)
          /\ hs_sent[i] # RawmodeLine
    /\ hs_sent # <<>> => cs_connected
    /\ hs_threads => Len(hs_sent) >= 2
    /\ cs_pc = "raised" => (hs_sent = <<>> /\ ~hs_threads)
    /\ ~cs_connected => (hs_sent = <<>> /\ ~hs_threads)

\* C20, the case: the bus was constructed and a frame was sent on it.
C20_Witness ==
    /\ hs_pc = "ready" /\ hs_threads
    /\ Len(hs_sent) = 3
    /\ startswith(hs_sent[3], SendPrefix)

\* The payload byte tokens of an outbound line: what stands between the LEN
\* token and the closing " >".
ByteTokens(line) ==
    LET tokens == split(removesuffix(removeprefix(line, SendPrefix), LineSuffix), 0 - 1)
    IN  SelectSeq(SubSeq(tokens, 3, Len(tokens)), LAMBDA t : t # <<>>)

\* The LEN token of an outbound line, as a number.
LenToken(line) ==
    IntBase16(split(removesuffix(removeprefix(line, SendPrefix), LineSuffix), 0 - 1)[2])

\* C21: the outbound line carries exactly LEN byte tokens, the first LEN
\* bytes of the frame's data, also when dlc differs from the data length.
C21_ExactlyLenByteTokens ==
    codec_pc # "new" =>
        /\ Len(ByteTokens(codec_line)) = LenToken(codec_line)
        /\ \A i \in 1..Len(ByteTokens(codec_line)) :
              /\ i <= Len(codec_msg.data)
              /\ ByteTokens(codec_line)[i] = FormatHex(codec_msg.data[i], HexLower)

\* C21, the case: a frame whose dlc is larger than its data has been
\* encoded.
C21_Witness ==
    /\ codec_pc # "new"
    /\ codec_msg.dlc > Len(codec_msg.data)
    /\ Len(codec_msg.data) >= 1

(***************************************************************************)
(* C22                                                                     *)
(***************************************************************************)

\* get_message's result on thread c is None.
ReturnedNone(c) == bf_ret[c] = Return([kind |-> "None"])

\* C22: BufferedReader is a FIFO sink.  The frames get_message has returned,
\* followed by the frames still buffered, are exactly the frames passed to
\* on_message_received, in arrival order, each once, whatever the
\* interleaving of the producer and the consumers; a call that ends while
\* the buffer holds a frame returns the oldest one, a call that ends on an
\* empty buffer (the timeout) returns None, and no call raises.
C22_FifoSink ==
    /\ [](bf_returned \o buffer = [i \in 1..bf_put |-> i])
    /\ [](\A c \in Consumers : bf_ret[c].kind # "raise")
    /\ [][\A c \in Consumers :
            (bf_pc[c] = "get" /\ bf_pc'[c] = "idle") =>
                IF buffer = <<>>
                THEN ReturnedNone(c)' /\ buffer' = buffer
                ELSE /\ bf_ret'[c] = Return([kind |-> "frame", frame |-> Head(buffer)])
                     /\ buffer' = Tail(buffer)]_vars

\* Two frames were returned in arrival order and a call on one of the
\* threads timed out.
C22_Witness ==
    /\ bf_returned = <<1, 2>>
    /\ \E c \in Consumers : ReturnedNone(c)
    /\ \E c \in Consumers : bf_ret[c].kind = "return" /\ bf_ret[c].value.kind = "frame"

(***************************************************************************)
(* C23                                                                     *)
(***************************************************************************)

\* C23: registration through Bus.add_listener is atomic with respect to
\* delivery: no listener is invoked with a frame before set_write_bus has
\* been called on it, whatever the interleaving with a drain of the shared
\* read handle.
C23_NoDeliveryBeforeRegistered == al_early = {}

\* A listener is being registered (appended, set_write_bus still to come)
\* while a drain is fanning a frame out.
C23_Witness ==
    /\ \E l \in Sinks : al_pc[l] = "appended"
    /\ \E t \in RxThreads : rc_pc[t] = "fanout"

(***************************************************************************)
(* C24                                                                     *)
(***************************************************************************)

\* C24: a recoverable error does not end the background reader.  The reader
\* thread of a BusABC has left its loop (normally or with an exception) only
\* when shutdown has been called: after _get_message raised for one frame or
\* a listener callback raised during fan-out the loop is still running.
C24_ReaderSurvivesErrors == rx_pc \in {"done", "raised"} => shutdown_calls > 0

\* A listener callback or _get_message raised on the reader thread after a
\* frame had been received, and shutdown was never called.
C24_Witness ==
    /\ rx_pc = "raised"
    /\ Len(got) >= 1
    /\ shutdown_calls = 0

(***************************************************************************)
(* C25                                                                     *)
(***************************************************************************)

\* C25: opening a handle fails with InvalidBusParameterError when the
\* channel is outside the available range or the flags have a bit outside
\* the allowed mask, in both cases without the driver's open having been
\* called, and when the driver's open reports canERR_NOTFOUND; any other
\* driver error comes out unchanged; the failing _get_handle neither adds a
\* handle to its registry nor arms its notification callback.
C25_OpenFailures ==
    [][failed_inits' # failed_inits =>
         /\ (init_error'.channel \notin Channels =>
                /\ init_error'.error.raised = "InvalidBusParameterError"
                /\ ~init_error'.error.open_called)
         /\ (FlagsTestAllBits(init_error'.flags) =>
                /\ init_error'.error.raised = "InvalidBusParameterError"
                /\ ~init_error'.error.open_called)
         /\ ((init_error'.error.open_called /\ init_error'.driver = "canERR_NOTFOUND") =>
                init_error'.error.raised = "InvalidBusParameterError")
         /\ ((init_error'.error.open_called /\ init_error'.driver # "canERR_NOTFOUND") =>
                /\ init_error'.error.raised = "CANLIBError"
                /\ init_error'.error.parameter = init_error'.driver)
         /\ (init_error'.stage = "read" =>
                UNCHANGED <<READ_HANDLE_REGISTRY, WRITE_HANDLE_REGISTRY, canlib_chan>>)
         /\ (init_error'.stage = "write" =>
                /\ UNCHANGED WRITE_HANDLE_REGISTRY
                /\ \A k \in DOMAIN canlib_chan' :
                      canlib_chan'[k].notify = "TX_CALLBACK" =>
                          (k \in DOMAIN canlib_chan /\ canlib_chan[k].notify = "TX_CALLBACK"))
      ]_vars

\* A Bus was asked for with a valid channel and flags that have bit 16 set,
\* after another Bus had been constructed.
C25_Witness ==
    /\ failed_inits >= 1
    /\ Len(buses) >= 1
    /\ init_error.channel \in Channels
    /\ init_error.flags = 65536

(***************************************************************************)
(* C26                                                                     *)
(***************************************************************************)

\* C26: BusABC.write is always enabled and only enqueues.  In every state
\* of the bus (running or shut down, threads anywhere, any queue length) a
\* caller's next write can be made, and a write appends its frame to the tail
\* of the transmit queue, hands nothing to the backend transmit primitive
\* and leaves the listener list, the running flag, the threads and the
\* frames already queued as they were.
C26_WriteOnlyEnqueues ==
    /\ [](accepted < MaxWrites =>
             ENABLED (/\ \E msg \in 1..MaxWrites : write(msg)
                      /\ UNCHANGED <<regVars, rdVars, wrVars, extVars>>))
    /\ [][accepted' # accepted =>
            /\ _tx_queue' = Append(_tx_queue, accepted')
            /\ UNCHANGED <<listeners, _threads_running, put_log, tx_pc, rx_pc, received>>
      ]_vars

\* Two frames were written, the second one onto a non-empty queue, on a bus
\* that has a listener and has been shut down.
C26_Witness ==
    /\ Len(_tx_queue) >= 2
    /\ Len(listeners) >= 1
    /\ ~_threads_running

(***************************************************************************)
(* C27                                                                     *)
(***************************************************************************)

\* No receive_callback invocation is executing and the driver has no
\* notification left to deliver.
ReadQuiescent == rx_notify = 0 /\ \A t \in RxThreads : rc_pc[t] = "idle"

\* C27: one receive notification drains everything.  The drain loop pulls
\* frames until the driver reports no more data and re-arms the notification
\* while 'reading' is still set, and therefore a frame in the driver's
\* buffer is never left there with no drain running and no notification to
\* come.
C27_DrainsEverything ==
    /\ [](ReadQuiescent => canlib_rx = <<>>)
    /\ [][\A t \in RxThreads :
            (rc_pc[t] = "rearm" /\ rc_pc'[t] = "clear") => reading]_vars

\* A drain pulled its last frame and found the buffer empty; the next frame
\* arrived before the drain released the guard.
C27_Witness ==
    /\ \E t \in RxThreads : rc_pc[t] \in {"rearm", "clear"}
    /\ canlib_rx # <<>>
    /\ reading

(***************************************************************************)
(* C28                                                                     *)
(***************************************************************************)

\* The frames handed to canWrite so far.
AtHardware == {canlib_written[i] : i \in 1..Len(canlib_written)}

\* C28: enqueue-then-kick.  A write call that found the transmit queue empty
\* and no transmit in progress (transmit callbacks being enabled) has its
\* frame handed to the hardware when it returns, and leaves the queue empty;
\* a write call that found the queue non-empty appends its frame and returns
\* without any hardware call.
C28_EnqueueThenKick ==
    [][\A t \in Writers :
          /\ (tc_pc[t] = "put" /\ tc_pc'[t] = "idle") =>
                /\ tc_old_size[t] # 0
                /\ tx_queue' = Append(tx_queue, tc_msg[t])
                /\ UNCHANGED canlib_written
          /\ (/\ tc_pc[t] \notin {"idle", "put"}
              /\ tc_pc'[t] = "idle"
              /\ ~tc_busy_at_call[t]
              /\ transmit_callback_enabled) =>
                /\ tc_msg[t] \in AtHardware'
                /\ tx_queue' = <<>>
      ]_vars

\* A write call that found the handle quiet and the queue empty has come
\* back, and its frame is at the hardware.
C28_Witness ==
    /\ \E t \in Writers : tc_pc[t] = "idle" /\ tc_msg[t] \in AtHardware /\ ~tc_busy_at_call[t]
    /\ \E t \in Writers : tc_pc[t] = "idle" /\ tc_msg[t] # 0 /\ tc_old_size[t] # 0

(***************************************************************************)
(* C29 and C30                                                             *)
(***************************************************************************)

\* C29: process-wide shutdown terminates.  Once _cleanup has started, its
\* spin-waits on 'reading' and 'writing' are eventually left and it reaches
\* the end of the final flush of the handles, from every state of the
\* handles, a drain that ended with an exception included.
C29_CleanupTerminates == (cl_pc # "start") ~> (cl_pc = "done")

\* _cleanup is in its spin-wait on 'reading' after a drain ended with an
\* exception.
C29_Witness ==
    /\ cl_pc = "wait_read"
    /\ reading
    /\ \A t \in RxThreads : rc_pc[t] = "idle"


\* No receive_callback invocation is executing on the read handle.
NoReceiveCallback == \A t \in RxThreads : rc_pc[t] = "idle"
\* No transmit_callback invocation is executing on the write handle (a
\* thread at the start of write has not entered it yet).
NoTransmitCallback == \A t \in TxThreads : tc_pc[t] \in {"idle", "put"}

\* C30: the reentrancy guards are always released.  Whenever no
\* receive_callback invocation is executing 'reading' is False, and whenever
\* no transmit_callback invocation is executing 'writing' is False, whatever
\* way the invocations ended (a listener raising, Message construction
\* failing, canWrite raising).
C30_GuardsReleased ==
    /\ NoReceiveCallback => ~reading
    /\ NoTransmitCallback => ~writing

\* canWrite raised inside a transmit_callback that a write call had made,
\* with a second frame waiting in the queue.
C30_Witness ==
    /\ NoTransmitCallback
    /\ writing
    /\ tx_queue # <<>>

(***************************************************************************)
(* C31                                                                     *)
(***************************************************************************)

\* How often frame m occurs in a sequence.
Occurrences(seq, m) == Cardinality({i \in 1..Len(seq) : seq[i] = m})

\* Frame m has been taken from the queue by a transmit_callback invocation
\* that is about to pass it to canWrite.
HeldFor(m) == Cardinality({t \in TxThreads : tc_pc[t] = "canWrite" /\ tc_to_send[t] = m})

C32_AtMostOneFrameAfterShutdown ==
    /\ [](Cardinality(fanned_after_shutdown) <= 1)
    /\ [][/\ (rx_pc = "loop" /\ ~_threads_running /\ rx_pc' # rx_pc) => rx_pc' = "done"
          /\ (rx_pc = "done" => rx_pc' = "done" /\ got' = got /\ received' = received)
      ]_vars

\* shutdown() returned while a _get_message call was in flight; the frame of
\* that call was fanned out to two listeners and the reader has left its
\* loop.
C32_Witness ==
    /\ fanned_after_shutdown # {}
    /\ rx_pc = "done"
    /\ \E l \in Listeners : Len(received[l]) >= 2

(***************************************************************************)
(* C33                                                                     *)
(***************************************************************************)

\* The handles of the two registries.
RegisteredHandles == DOMAIN READ_HANDLE_REGISTRY \cup DOMAIN WRITE_HANDLE_REGISTRY

C34_SilentBusNeverTransmits ==
    /\ [][bw_silent_seen' # bw_silent_seen => UNCHANGED wrVars]_vars
    /\ [][\A t \in Writers :
            (tc_pc[t] = "idle" /\ tc_pc'[t] # "idle") =>
                (tc_pc'[t] = "put" /\ tc_msg'[t] = NextMsg /\ UNCHANGED bw_silent_seen)]_vars
    /\ [](\A t \in Writers :
            (tc_msg[t] # 0 /\ tc_pc[t] # "put") => Enqueued(tc_msg[t]))

\* write was called on a silent Bus while frames written through a normal
\* Bus of the same handle were queued and at the hardware.
C34_Witness ==
    /\ bw_silent_seen
    /\ Len(canlib_written) >= 1
    /\ tx_queue # <<>>

====
